---- MODULE Spec2Model ----
(***************************************************************************)
(* Verification model of the cost-governed external-API orchestration      *)
(* layer of Young-Production:                                              *)
(*   core/notion_client.py   NotionClient (rate limiter, retry loop)       *)
(*   utils/cost_tracker.py   CostTracker  (cost ledger, budget limits)     *)
(*   core/ai_client.py       AIClient     (metered generation)             *)
(*   utils/state_manager.py  StateManager (snapshots, processed entries)   *)
(*                                                                         *)
(* Time is counted in ticks, TicksPerSec ticks to the second.  Optional    *)
(* values are tuples: None is <<>> and Some(x) is <<x>>.                   *)
(***************************************************************************)
EXTENDS Integers, Sequences, FiniteSets, TLC

None == <<>>

Some(x) == <<x>>

RECURSIVE Pow2(_)
Pow2(n) == IF n <= 0 THEN 1 ELSE 2 * Pow2(n - 1)

(***************************************************************************)
(* Bounds of the model.                                                    *)
(***************************************************************************)
\* ticks per second of the model clock
TicksPerSec == 5

\* value of time.time() when the client is constructed (Unix time: far
\* larger than any request interval)
Epoch == 10

\* no new request() call and no idling starts after this time
MaxTime == 12

\* largest max_retries argument tried (3 is the default of _request)
MaxRetriesArg == 3

\* add_cost calls in one behaviour
MaxRecords == 3

\* StateManager calls that write, in one behaviour
MaxStoreOps == 3

\* significant bits of a float (binary64 has 53)
MantissaBits == 4

(***************************************************************************)
(* NotionClient: inputs                                                    *)
(***************************************************************************)
\* rate_limit_per_sec arguments, in requests per 10 seconds (25 is the
\* default of 2.5 requests per second)
RatesX10 == {25}

\* time one HTTP exchange takes, in ticks
Durations == {0, 1}

\* time by which the time.sleep() calls of one loop iteration overshoot, in
\* ticks
Overshoots == {0, 1}

\* values of the Retry-After header of a 429 response ("absent": no header)
RetryAfterHeaders == {"absent", "abc", "-1", "0"}

\* what requests.request() does: raise a RequestException (connection
\* error, timeout) or return a response
HttpResults ==
    [raises : {TRUE}, status : {0}, text : {""}, retry_after : {"absent"}]
    \cup [raises : {FALSE}, status : {200}, text : {"{a}", "<html>"},
          retry_after : {"absent"}]
    \cup [raises : {FALSE}, status : {429}, text : {""},
          retry_after : RetryAfterHeaders]
    \cup [raises : {FALSE}, status : {404}, text : {"{b}"},
          retry_after : {"absent"}]
    \cup [raises : {FALSE}, status : {400}, text : {"{b}"},
          retry_after : {"absent"}]
    \cup [raises : {FALSE}, status : {500}, text : {"", "<html>"},
          retry_after : {"absent"}]

VARIABLES
    now,                \* time.time(), in ticks
    min_interval,       \* NotionClient.min_interval, in ticks
    last_request_time,  \* NotionClient.last_request_time, in ticks
    json_error_is_request_exception,
                        \* whether the installed requests library raises a
                        \* RequestException subclass from response.json()
                        \* (requests >= 2.27) or a plain ValueError
    pc,                 \* "idle", or "loop" inside _request's for loop
    max_retries,        \* argument of the running (or last) _request call
    attempt,            \* loop variable of _request
    outcome,            \* how the last _request call ended
    trace,              \* one entry per HTTP request of the running (or
                        \* last) _request call
    recv_time,          \* time the last response (or exception) arrived
    waited,             \* ticks between the previous response and the
                        \* start of the last HTTP request
    starts,             \* start times of the last two HTTP requests of the
                        \* client, newest last
    first_start,        \* Some(start time of the client's first request)
    first_delay,        \* Some(ticks the limiter held that request back)
    last_delay,         \* ticks the limiter held the last request back
    nreq                \* HTTP requests issued by the client so far

clientVars == <<now, min_interval, last_request_time,
                json_error_is_request_exception, pc, max_retries, attempt,
                outcome, trace, recv_time, waited, starts, first_start,
                first_delay, last_delay, nreq>>

VARIABLES
    today,              \* date.today(), as <<month, day>>
    costs,              \* CostTracker.costs
    state_file,         \* content of state/ai_costs.json (None: no file)
    daily_soft_limit,   \* CostTracker.daily_soft_limit
    daily_hard_limit,   \* CostTracker.daily_hard_limit
    monthly_soft_limit, \* CostTracker.monthly_soft_limit
    monthly_hard_limit, \* CostTracker.monthly_hard_limit
    result,             \* what the last ledger or generation call did
    recorded            \* every add_cost call so far: its date and
                        \* arguments

limitVars == <<daily_soft_limit, daily_hard_limit, monthly_soft_limit,
               monthly_hard_limit>>

ledgerVars == <<today, costs, state_file, limitVars, result, recorded>>

VARIABLES
    workflow_files,     \* state/<name>_last_run.json: file stem -> document
    processed_file,     \* content of state/processed_entries.json (None: no
                        \* file)
    store_now,          \* datetime.now(), counted in store operations
    store_result,       \* what the last StateManager call did
    saved,              \* workflow names given to save_workflow_state so far
    marked              \* (db_name, entry_id) pairs given to
                        \* mark_entry_processed so far

storeVars == <<workflow_files, processed_file, store_now, store_result,
               saved, marked>>

VARIABLES
    clients,            \* two NotionClient instances in two threads: for each
                        \* its last_request_time and where it is in
                        \* _rate_limit()
    request_starts,     \* (instance, time) of every request start so far
    peer_costs,         \* CostTracker.costs of a second CostTracker opened
                        \* on the same file
    peer_recorded,      \* every add_cost call of the second CostTracker
    markers,            \* two processes in mark_entry_processed: for each
                        \* its arguments and the dictionary it has read
    completed           \* (db_name, entry_id) of every mark_entry_processed
                        \* call that has returned

concurrentVars == <<clients, request_starts, peer_costs, peer_recorded,
                    markers, completed>>

vars == <<clientVars, ledgerVars, storeVars, concurrentVars>>

(***************************************************************************)
(* NotionClient: pure parts                                                *)
(***************************************************************************)
\* __init__: self.min_interval = 1.0 / rate_limit_per_sec
MinIntervalOf(rate_x10) == (10 * TicksPerSec) \div rate_x10

\* a _rate_limit that never sleeps
RateLimitSleep_Never(t, last, interval) == 0

\* _rate_limit: the duration passed to time.sleep (0: no sleep)
RateLimitSleep(t, last, interval) ==
    LET elapsed == t - last
    IN  IF elapsed < interval THEN interval - elapsed ELSE 0

\* int(s) on a header string
ParseInt(s) ==
    CASE s = "-1" -> [ok |-> TRUE, val |-> -1]
      [] s = "0"  -> [ok |-> TRUE, val |-> 0]
      [] s = "1"  -> [ok |-> TRUE, val |-> 1]
      [] OTHER    -> [ok |-> FALSE, val |-> 0]

\* int(response.headers.get("Retry-After", 2 ** attempt))
RetryAfter(r, att) ==
    IF r.retry_after = "absent"
    THEN [ok |-> TRUE, val |-> Pow2(att)]
    ELSE ParseInt(r.retry_after)

\* response.json()
JsonParse(text) ==
    CASE text = "{a}" -> [ok |-> TRUE, val |-> "a"]
      [] text = "{b}" -> [ok |-> TRUE, val |-> "b"]
      [] OTHER        -> [ok |-> FALSE, val |-> ""]

\* results of one loop iteration
Continue(secs) ==
    [next |-> "continue", sleep |-> Some(secs), outcome |-> [kind |-> "none"]]

Return(val) ==
    [next |-> "return", sleep |-> None,
     outcome |-> [kind |-> "return", value |-> val]]

Raise(exc) == [next |-> "raise", sleep |-> None, outcome |-> exc]

\* exception objects (core/exceptions.py)
NotionAPIError(msg, status_code, response_data, cause) ==
    [kind |-> "NotionAPIError", message |-> msg, status_code |-> status_code,
     response_data |-> response_data, cause |-> cause]

NotionRateLimitError(retry_after) ==
    [kind |-> "NotionRateLimitError", retry_after |-> retry_after,
     status_code |-> None, response_data |-> None]

PageNotFoundError(status_code) ==
    [kind |-> "PageNotFoundError", status_code |-> Some(status_code),
     response_data |-> None]

\* an exception that is not part of the taxonomy and escapes _request
ValueError(src) == [kind |-> "ValueError", source |-> src]

\* an except clause that compares the attempt with max_retries itself
OnRequestException_OffByOne(att, mr, cause) ==
    IF att = mr
    THEN Raise(NotionAPIError("Request failed after attempts", None, None,
                              Some(cause)))
    ELSE Continue(Pow2(att))

\* except requests.RequestException as e
OnRequestException(att, mr, cause) ==
    IF att = mr - 1
    THEN Raise(NotionAPIError("Request failed after attempts", None, None,
                              Some(cause)))
    ELSE Continue(Pow2(att))

\* response.json() failed on an undecodable body
OnJsonError(att, mr) ==
    IF json_error_is_request_exception
    THEN OnRequestException(att, mr, "JSONDecodeError")
    ELSE Raise(ValueError("json"))

\* if response.status_code == 429
On429(r, att, mr) ==
    LET ra == RetryAfter(r, att)
    IN  IF ~ra.ok THEN Raise(ValueError("int"))
        ELSE IF att = mr - 1 THEN Raise(NotionRateLimitError(ra.val))
        ELSE IF ra.val < 0 THEN Raise(ValueError("sleep"))
        ELSE Continue(ra.val)

\* if response.status_code >= 400
OnErrorStatus(r, att, mr) ==
    IF r.text # ""
    THEN IF JsonParse(r.text).ok
         THEN Raise(NotionAPIError("Notion API error", Some(r.status),
                                   Some(JsonParse(r.text).val), None))
         ELSE OnJsonError(att, mr)
    ELSE Raise(NotionAPIError("Notion API error", Some(r.status), None, None))

\* return response.json()
OnSuccess(r, att, mr) ==
    IF JsonParse(r.text).ok
    THEN Return(JsonParse(r.text).val)
    ELSE OnJsonError(att, mr)

\* a loop body whose except clause also catches PageNotFoundError
Handle_NotFoundCaught(r, att, mr) ==
    IF r.raises THEN OnRequestException(att, mr, "RequestException")
    ELSE IF r.status = 429 THEN On429(r, att, mr)
    ELSE IF r.status = 404 THEN OnRequestException(att, mr, "PageNotFound")
    ELSE IF r.status >= 400 THEN OnErrorStatus(r, att, mr)
    ELSE OnSuccess(r, att, mr)

\* the body of the try block and its except clause, for one HTTP result
Handle(r, att, mr) ==
    IF r.raises THEN OnRequestException(att, mr, "RequestException")
    ELSE IF r.status = 429 THEN On429(r, att, mr)
    ELSE IF r.status = 404 THEN Raise(PageNotFoundError(404))
    ELSE IF r.status >= 400 THEN OnErrorStatus(r, att, mr)
    ELSE OnSuccess(r, att, mr)

(***************************************************************************)
(* NotionClient: state machine                                             *)
(***************************************************************************)
ClientInit ==
    /\ now = Epoch
    /\ min_interval \in {MinIntervalOf(r) : r \in RatesX10}
    /\ last_request_time = 0
    /\ json_error_is_request_exception \in BOOLEAN
    /\ pc = "idle"
    /\ max_retries = 0
    /\ attempt = 0
    /\ outcome = [kind |-> "none"]
    /\ trace = <<>>
    /\ recv_time = Epoch
    /\ waited = 0
    /\ starts = <<>>
    /\ first_start = None
    /\ first_delay = None
    /\ last_delay = 0
    /\ nreq = 0

\* the caller does something else for a while
Idle ==
    /\ pc = "idle"
    /\ now < MaxTime
    /\ now' = now + 1
    /\ UNCHANGED <<min_interval, last_request_time,
                   json_error_is_request_exception, pc, max_retries, attempt,
                   outcome, trace, recv_time, waited, starts,
                   first_start, first_delay, last_delay, nreq, ledgerVars,
                   storeVars,
                   concurrentVars>>

\* a _request that enters its loop even when max_retries is 0
Request_DoWhile(mr) ==
    /\ pc = "idle"
    /\ now <= MaxTime
    /\ max_retries' = mr
    /\ attempt' = 0
    /\ trace' = <<>>
    /\ IF mr < 0
       THEN /\ pc' = "idle"
            /\ outcome' = NotionAPIError("Max retries exceeded", None, None,
                                         None)
       ELSE /\ pc' = "loop"
            /\ outcome' = [kind |-> "none"]
    /\ UNCHANGED <<now, min_interval, last_request_time,
                   json_error_is_request_exception, recv_time, waited,
                   starts, first_start, first_delay, last_delay, nreq,
                   ledgerVars, storeVars,
                   concurrentVars>>

\* _request(method, endpoint, json_data, max_retries=mr) is called; with
\* range(mr) empty the loop body never runs and line 106 raises
Request(mr) ==
    /\ pc = "idle"
    /\ now <= MaxTime
    /\ max_retries' = mr
    /\ attempt' = 0
    /\ trace' = <<>>
    /\ IF mr <= 0
       THEN /\ pc' = "idle"
            /\ outcome' = NotionAPIError("Max retries exceeded", None, None,
                                         None)
       ELSE /\ pc' = "loop"
            /\ outcome' = [kind |-> "none"]
    /\ UNCHANGED <<now, min_interval, last_request_time,
                   json_error_is_request_exception, recv_time, waited,
                   starts, first_start, first_delay, last_delay, nreq,
                   ledgerVars, storeVars,
                   concurrentVars>>

\* a loop whose throttled attempts do not use up the retry budget
Attempt_FreeThrottle(r, dur, jit) ==
    /\ pc = "loop"
    /\ attempt < max_retries
    /\ LET rl == RateLimitSleep(now, last_request_time, min_interval)
           start == now + rl + (IF rl > 0 THEN jit ELSE 0)
           recv == start + dur
           h == Handle(r, attempt, max_retries)
           after == IF h.sleep # None
                    THEN recv + h.sleep[1] * TicksPerSec + jit
                    ELSE recv
       IN  /\ last_request_time' = start
           /\ now' = after
           /\ recv_time' = recv
           /\ trace' = Append(trace, [resp |-> r, sleep |-> h.sleep])
           /\ waited' = start - recv_time
           /\ starts' = IF starts = <<>> THEN <<start>>
                        ELSE <<starts[Len(starts)], start>>
           /\ first_start' = IF first_start = None THEN Some(start)
                             ELSE first_start
           /\ first_delay' = IF first_delay = None THEN Some(start - now)
                             ELSE first_delay
           /\ last_delay' = start - now
           /\ nreq' = nreq + 1
           /\ IF h.next = "continue" /\ ~r.raises /\ r.status = 429
              THEN /\ attempt' = attempt
                   /\ pc' = "loop"
                   /\ outcome' = outcome
              ELSE IF h.next = "continue"
              THEN IF attempt + 1 < max_retries
                   THEN /\ attempt' = attempt + 1
                        /\ pc' = "loop"
                        /\ outcome' = outcome
                   ELSE /\ attempt' = attempt
                        /\ pc' = "idle"
                        /\ outcome' = NotionAPIError("Max retries exceeded",
                                                     None, None, None)
              ELSE /\ attempt' = attempt
                   /\ pc' = "idle"
                   /\ outcome' = h.outcome
    /\ UNCHANGED <<min_interval, json_error_is_request_exception,
                   max_retries, ledgerVars, storeVars,
                   concurrentVars>>

\* one iteration of the for loop: _rate_limit(), the HTTP request, and the
\* handling of its result, including the backoff sleep
Attempt(r, dur, jit) ==
    /\ pc = "loop"
    /\ attempt < max_retries
    /\ LET rl == RateLimitSleep(now, last_request_time, min_interval)
           start == now + rl + (IF rl > 0 THEN jit ELSE 0)
           recv == start + dur
           h == Handle(r, attempt, max_retries)
           after == IF h.sleep # None
                    THEN recv + h.sleep[1] * TicksPerSec + jit
                    ELSE recv
       IN  /\ last_request_time' = start
           /\ now' = after
           /\ recv_time' = recv
           /\ trace' = Append(trace, [resp |-> r, sleep |-> h.sleep])
           /\ waited' = start - recv_time
           /\ starts' = IF starts = <<>> THEN <<start>>
                        ELSE <<starts[Len(starts)], start>>
           /\ first_start' = IF first_start = None THEN Some(start)
                             ELSE first_start
           /\ first_delay' = IF first_delay = None THEN Some(start - now)
                             ELSE first_delay
           /\ last_delay' = start - now
           /\ nreq' = nreq + 1
           /\ IF h.next = "continue"
              THEN IF attempt + 1 < max_retries
                   THEN /\ attempt' = attempt + 1
                        /\ pc' = "loop"
                        /\ outcome' = outcome
                   ELSE /\ attempt' = attempt
                        /\ pc' = "idle"
                        /\ outcome' = NotionAPIError("Max retries exceeded",
                                                     None, None, None)
              ELSE /\ attempt' = attempt
                   /\ pc' = "idle"
                   /\ outcome' = h.outcome
    /\ UNCHANGED <<min_interval, json_error_is_request_exception,
                   max_retries, ledgerVars, storeVars,
                   concurrentVars>>

ClientNext ==
    \/ Idle
    \/ \E mr \in 0..MaxRetriesArg : Request(mr)
    \/ \E r \in HttpResults, dur \in Durations, jit \in Overshoots :
          Attempt(r, dur, jit)


(***************************************************************************)
(* Floating point.  Costs, totals, limits and prices are Python floats.    *)
(* A float is held as a whole number of units of 1/UnitsPerUsd USD; the    *)
(* result of an operation is the exact result rounded to MantissaBits      *)
(* significant bits, ties to even, as IEEE 754 does.  The mantissa is      *)
(* scaled down, so rounding sets in at 2^MantissaBits units rather than    *)
(* at 2^53.                                                                *)
(***************************************************************************)
UnitsPerUsd == Pow2(2)

RECURSIVE BitLen(_)
BitLen(n) == IF n <= 0 THEN 0 ELSE 1 + BitLen(n \div 2)

\* n / d rounded to the nearest whole number, ties to even
RoundHalfEven(n, d) ==
    LET q == n \div d
        r == n % d
    IN  IF 2 * r < d THEN q
        ELSE IF 2 * r > d THEN q + 1
        ELSE IF q % 2 = 0 THEN q ELSE q + 1

\* n / d rounded to a float
FRoundDiv(n, d) ==
    LET q == n \div d
        step == IF q < Pow2(MantissaBits) THEN 1
                ELSE Pow2(BitLen(q) - MantissaBits)
    IN  RoundHalfEven(n, d * step) * step

\* float + float
FAdd(a, b) == FRoundDiv(a + b, 1)

\* float * float
FMul(a, b) == FRoundDiv(a * b, UnitsPerUsd)

\* float / float, and int / int (true division)
FDiv(a, b) == FRoundDiv(a * UnitsPerUsd, b)

(***************************************************************************)
(* CostTracker and AIClient: inputs                                        *)
(***************************************************************************)
\* the calendar: two days of month 1, then the first day of month 2
Dates == <<<<1, 1>>, <<1, 2>>, <<2, 1>>>>

\* cost_usd arguments of add_cost, in units: a small and a large cost
Costs == {1, 16}

\* (skill_name, workflow_name, details) arguments of add_cost
Labels == {<<"S05", Some("WF1"),
             Some([model |-> "claude-3-5-sonnet-20241022",
                   input_tokens |-> 10, output_tokens |-> 20])>>,
           <<"S15", None, None>>}

\* (skill_name, workflow_name) arguments of generate_with_cost_tracking
TrackingLabels == {<<"S05", Some("WF1")>>}

\* AI_*_LIMIT_USD settings of the environment, in units
LimitSettings ==
    {[daily_soft |-> 8, daily_hard |-> 18,
      monthly_soft |-> 20, monthly_hard |-> 24]}

\* model arguments of generate
Models == {"claude-3-5-haiku-20241022", "claude-3-5-sonnet-20241022",
           "my-model"}

\* what self.client.messages.create and the processing of its response do:
\* give a response with (input_tokens, output_tokens) usage, raise
\* anthropic.APIError, or raise something else before the price lookup
ApiResults ==
    [kind : {"response"},
     usage : {<<0, 0>>, <<1000000, 2000000>>}]
    \cup [kind : {"APIError", "Exception"}, usage : {<<0, 0>>}]

(***************************************************************************)
(* CostTracker: pure parts                                                 *)
(***************************************************************************)
\* dict.get(key, 0.0)
Get(d, key) == IF key \in DOMAIN d THEN d[key] ELSE 0

\* d[key] = value
Put(d, key, value) ==
    [k \in DOMAIN d \cup {key} |-> IF k = key THEN value ELSE d[k]]

\* today[:7]
MonthOf(date) == date[1]

\* the day after date (same date on the last day of the calendar)
NextDate(date) ==
    LET i == CHOOSE j \in 1..Len(Dates) : Dates[j] = date
    IN  IF i < Len(Dates) THEN Dates[i + 1] ELSE date

\* load_costs when the file does not exist
EmptyCosts ==
    [daily |-> <<>>, monthly |-> <<>>, per_skill |-> <<>>,
     per_workflow |-> <<>>, history |-> <<>>]

\* history entries kept by add_cost
HistoryLimit == 1000

\* a truncation that keeps the first n entries
LastEntries_First(h, n) ==
    IF Len(h) > n THEN SubSeq(h, 1, n) ELSE h

\* self.costs["history"][-1000:]
LastEntries(h, n) ==
    IF Len(h) > n THEN SubSeq(h, Len(h) - n + 1, Len(h)) ELSE h

CostLimitExceeded(msg, daily_cost, monthly_cost) ==
    [kind |-> "CostLimitExceeded", message |-> msg,
     daily_cost |-> daily_cost, monthly_cost |-> monthly_cost]

AIError(msg) == [kind |-> "AIError", message |-> msg]

\* a hard limit that a total must exceed, not just reach
HardLimitReached_Strict(cost, limit) == cost > limit

\* daily_cost >= self.daily_hard_limit, monthly_cost >= self.monthly_hard_limit
HardLimitReached(cost, limit) == cost >= limit

\* a check_limits without the monthly hard limit
CheckLimits_DailyOnly(c, date) ==
    LET daily_cost == Get(c.daily, date)
        monthly_cost == Get(c.monthly, MonthOf(date))
    IN  IF HardLimitReached(daily_cost, daily_hard_limit)
        THEN [raised |-> Some(CostLimitExceeded("Daily hard limit exceeded",
                                                daily_cost, monthly_cost)),
              warnings |-> {}]
        ELSE [raised |-> None,
              warnings |->
                  {w \in {"daily"} : daily_cost >= daily_soft_limit}
                  \cup {w \in {"monthly"} :
                            monthly_cost >= monthly_soft_limit}]

\* check_limits on snapshot c at date: the exception raised (None: returns)
\* and the warnings printed
CheckLimits(c, date) ==
    LET daily_cost == Get(c.daily, date)
        monthly_cost == Get(c.monthly, MonthOf(date))
    IN  IF HardLimitReached(daily_cost, daily_hard_limit)
        THEN [raised |-> Some(CostLimitExceeded("Daily hard limit exceeded",
                                                daily_cost, monthly_cost)),
              warnings |-> {}]
        ELSE IF HardLimitReached(monthly_cost, monthly_hard_limit)
        THEN [raised |-> Some(CostLimitExceeded(
                                  "Monthly hard limit exceeded",
                                  daily_cost, monthly_cost)),
              warnings |-> {}]
        ELSE [raised |-> None,
              warnings |->
                  {w \in {"daily"} : daily_cost >= daily_soft_limit}
                  \cup {w \in {"monthly"} :
                            monthly_cost >= monthly_soft_limit}]

\* a total set to the cost instead of raised by it
Accumulate_Overwrite(d, key, cost_usd) == Put(d, key, cost_usd)

\* d[key] = d.get(key, 0.0) + cost_usd
Accumulate(d, key, cost_usd) == Put(d, key, FAdd(Get(d, key), cost_usd))

\* an add_cost that books a call without workflow_name under "None"
AddCostTo_NoTest(c, date, cost_usd, skill_name, workflow_name, details) ==
    [daily |-> Accumulate(c.daily, date, cost_usd),
     monthly |-> Accumulate(c.monthly, MonthOf(date), cost_usd),
     per_skill |-> Accumulate(c.per_skill, skill_name, cost_usd),
     per_workflow |->
         Accumulate(c.per_workflow,
                    IF workflow_name # None THEN workflow_name[1]
                    ELSE "None",
                    cost_usd),
     history |->
         LastEntries(Append(c.history,
                            [timestamp |-> date, cost_usd |-> cost_usd,
                             skill |-> skill_name,
                             workflow |-> workflow_name,
                             details |-> details]),
                     HistoryLimit)]

\* the snapshot after the updates of add_cost on date
AddCostTo(c, date, cost_usd, skill_name, workflow_name, details) ==
    [daily |-> Accumulate(c.daily, date, cost_usd),
     monthly |-> Accumulate(c.monthly, MonthOf(date), cost_usd),
     per_skill |-> Accumulate(c.per_skill, skill_name, cost_usd),
     per_workflow |->
         IF workflow_name # None
         THEN Accumulate(c.per_workflow, workflow_name[1], cost_usd)
         ELSE c.per_workflow,
     history |->
         LastEntries(Append(c.history,
                            [timestamp |-> date, cost_usd |-> cost_usd,
                             skill |-> skill_name,
                             workflow |-> workflow_name,
                             details |-> details]),
                     HistoryLimit)]

\* Python values held in a state dictionary or a details payload, each
\* written as its repr: an
\* int, a str, a list, a tuple and a datetime
PyValues == {"10", "'old'", "[1, 2]", "(1, 2)", "datetime(2026, 1, 1)"}

\* whether json.dumps accepts the value (a datetime makes it raise
\* TypeError)
JsonSerializable(v) == v # "datetime(2026, 1, 1)"

\* the Python value that json.loads gives back for a value json.dumps
\* accepted: a tuple is written as an array and so comes back as a list
JsonValue(v) == IF v = "(1, 2)" THEN "[1, 2]" ELSE v

\* json.loads(text) of a document written by json.dumps
JsonLoads(doc) == doc

TypeError(msg) == [kind |-> "TypeError", message |-> msg]

\* json.dumps / json.loads on the details of a history entry: the values of
\* model, input_tokens and output_tokens are str and int; the value of note
\* is any Python value, held as its repr
JsonDetails(details) ==
    IF details = None THEN None
    ELSE Some([k \in DOMAIN details[1] |->
                  IF k = "note" THEN JsonValue(details[1][k])
                  ELSE details[1][k]])

DetailsSerializable(details) ==
    \/ details = None
    \/ "note" \in DOMAIN details[1] => JsonSerializable(details[1].note)

\* json.dumps(self.costs, indent=2): the document, or TypeError
DumpCosts(c) ==
    IF \A i \in 1..Len(c.history) : DetailsSerializable(c.history[i].details)
    THEN [ok |-> TRUE,
          doc |-> [c EXCEPT !.history =
                       [i \in 1..Len(c.history) |->
                           [c.history[i] EXCEPT
                                !.details = JsonDetails(@)]]]]
    ELSE [ok |-> FALSE, doc |-> <<>>]

\* the file after save_costs() of snapshot c on the file pf
SavedFile(c, pf) ==
    IF DumpCosts(c).ok THEN Some(DumpCosts(c).doc) ELSE pf

\* load_costs() on the file pf
LoadCosts(pf) == IF pf = None THEN EmptyCosts ELSE JsonLoads(pf[1])

\* get_today_cost, get_month_cost
GetTodayCost == Get(costs.daily, today)

GetMonthCost == Get(costs.monthly, MonthOf(today))

(***************************************************************************)
(* AIClient: pure parts                                                    *)
(***************************************************************************)
\* AIClient.COSTS, USD per million tokens: 0.25 / 1.25, 3.00 / 15.00 and
\* 15.00 / 75.00
COSTS ==
    [m \in {"claude-3-5-haiku-20241022", "claude-3-5-sonnet-20241022",
            "claude-opus-4-20250514"} |->
        IF m = "claude-3-5-haiku-20241022"
        THEN [input |-> FDiv(1, 4), output |-> FDiv(5, 4)]
        ELSE IF m = "claude-3-5-sonnet-20241022"
        THEN [input |-> FDiv(3, 1), output |-> FDiv(15, 1)]
        ELSE [input |-> FDiv(15, 1), output |-> FDiv(75, 1)]]

\* a price lookup that estimates an unknown model with Haiku pricing
ModelCosts_Haiku(model) ==
    IF model \notin DOMAIN COSTS THEN COSTS["claude-3-5-haiku-20241022"]
    ELSE COSTS[model]

\* the price entry used for model (Sonnet pricing for an unknown model)
ModelCosts(model) ==
    IF model \notin DOMAIN COSTS THEN COSTS["claude-3-5-sonnet-20241022"]
    ELSE COSTS[model]

\* a cost computed from prices per thousand tokens
CostUsd_PerThousand(model, input_tokens, output_tokens) ==
    FAdd(FMul(FDiv(input_tokens, 1000), ModelCosts(model).input),
         FMul(FDiv(output_tokens, 1000), ModelCosts(model).output))

\* cost_usd of a response
CostUsd(model, input_tokens, output_tokens) ==
    FAdd(FMul(FDiv(input_tokens, 1000000), ModelCosts(model).input),
         FMul(FDiv(output_tokens, 1000000), ModelCosts(model).output))

\* what generate() prints once the Anthropic call has returned: a warning
\* for a model that has no price entry
UnknownModelWarning(model) ==
    IF model \notin DOMAIN COSTS
    THEN Some("Warning: Unknown model, using Sonnet pricing for cost estimate")
    ELSE None

AIResponse(model, input_tokens, output_tokens) ==
    [text |-> "text", model |-> model, input_tokens |-> input_tokens,
     output_tokens |-> output_tokens,
     cost_usd |-> CostUsd(model, input_tokens, output_tokens)]

(***************************************************************************)
(* CostTracker and AIClient: state machine                                 *)
(***************************************************************************)
LedgerInit ==
    /\ today = Dates[1]
    /\ costs = EmptyCosts
    /\ state_file = None
    /\ \E l \in LimitSettings :
           /\ daily_soft_limit = l.daily_soft
           /\ daily_hard_limit = l.daily_hard
           /\ monthly_soft_limit = l.monthly_soft
           /\ monthly_hard_limit = l.monthly_hard
    /\ result = [op |-> "init"]
    /\ recorded = <<>>

\* the history of a ledger on which add_cost(cost, "S05", None, details) was
\* called HistoryLimit - 1 times on the first day, each call with details of
\* its own: the first two calls with one cost unit each, the others with 0.0
LongHistory ==
    [i \in 1..(HistoryLimit - 1) |->
        [timestamp |-> Dates[1], cost_usd |-> IF i <= 2 THEN 1 ELSE 0,
         skill |-> "S05",
         workflow |-> None,
         details |-> Some([model |-> "claude-3-5-haiku-20241022",
                           input_tokens |-> i, output_tokens |-> 0])]]

\* load_costs when the file holds that ledger
LongCosts ==
    [daily |-> Put(<<>>, Dates[1], FAdd(1, 1)),
     monthly |-> Put(<<>>, MonthOf(Dates[1]), FAdd(1, 1)),
     per_skill |-> Put(<<>>, "S05", FAdd(1, 1)), per_workflow |-> <<>>,
     history |-> LongHistory]

\* __init__ on the file of a ledger with a long history
LongHistoryInit ==
    /\ today = Dates[1]
    /\ costs = LongCosts
    /\ state_file = Some(LongCosts)
    /\ \E l \in LimitSettings :
           /\ daily_soft_limit = l.daily_soft
           /\ daily_hard_limit = l.daily_hard
           /\ monthly_soft_limit = l.monthly_soft
           /\ monthly_hard_limit = l.monthly_hard
    /\ result = [op |-> "init"]
    /\ recorded = <<>>

\* midnight passes
AdvanceDate ==
    /\ today # Dates[Len(Dates)]
    /\ today' = NextDate(today)
    /\ UNCHANGED <<costs, state_file, limitVars, result, recorded,
                   clientVars, storeVars,
                   concurrentVars>>

\* an add_cost that evaluates the limits on the new totals first and, when
\* that raises, neither keeps nor saves them
AddCost_CheckFirst(cost_usd, label, midnight) ==
    /\ Len(recorded) < MaxRecords
    /\ \E c \in {AddCostTo(costs, today, cost_usd, label[1], label[2],
                            label[3])},
          date \in {IF midnight THEN NextDate(today) ELSE today} :
       \E check \in {CheckLimits(c, date)} :
           /\ costs' = IF check.raised # None THEN costs ELSE c
           /\ state_file' = IF check.raised # None THEN state_file
                                                   ELSE Some(c)
           /\ today' = date
           /\ result' = [op |-> "add_cost", check |-> check]
    /\ recorded' = Append(recorded,
                          [date |-> today, cost |-> cost_usd,
                           skill |-> label[1], workflow |-> label[2],
                           details |-> label[3]])
    /\ UNCHANGED <<limitVars, clientVars, storeVars,
                   concurrentVars>>

\* add_cost(cost_usd, skill_name, workflow_name, details); midnight may pass
\* between its date.today() and the one of its final check_limits()
AddCost(cost_usd, label, midnight) ==
    /\ Len(recorded) < MaxRecords
    /\ \E c \in {AddCostTo(costs, today, cost_usd, label[1], label[2],
                            label[3])},
          date \in {IF midnight THEN NextDate(today) ELSE today} :
       \E dumped \in {DumpCosts(c)} :
           /\ costs' = c
           /\ today' = date
           /\ IF dumped.ok
              THEN /\ state_file' = Some(dumped.doc)
                   /\ result' = [op |-> "add_cost",
                                 check |-> CheckLimits(c, date)]
              ELSE /\ state_file' = state_file
                   /\ result' = [op |-> "add_cost",
                                 raised |-> Some(TypeError(
                                     "Object is not JSON serializable"))]
    /\ recorded' = Append(recorded,
                          [date |-> today, cost |-> cost_usd,
                           skill |-> label[1], workflow |-> label[2],
                           details |-> label[3]])
    /\ UNCHANGED <<limitVars, clientVars, storeVars,
                   concurrentVars>>

\* a check_limits() that reads the totals with setdefault, which enters a
\* total of 0.0 for a day or month that has none
CheckLimitsCall_Touch ==
    /\ result' = [op |-> "check_limits", check |-> CheckLimits(costs, today)]
    /\ costs' = [costs EXCEPT
                    !.daily = Put(@, today, Get(@, today)),
                    !.monthly = Put(@, MonthOf(today),
                                    Get(@, MonthOf(today)))]
    /\ UNCHANGED <<today, state_file, limitVars, recorded,
                   clientVars, storeVars,
                   concurrentVars>>

\* check_limits()
CheckLimitsCall ==
    /\ result' = [op |-> "check_limits", check |-> CheckLimits(costs, today)]
    /\ UNCHANGED <<today, costs, state_file, limitVars, recorded,
                   clientVars, storeVars,
                   concurrentVars>>

\* a generate() whose check_limits() is inside the try block
Generated_Rewrapped(c, date, model, api) ==
    LET check == CheckLimits(c, date)
    IN  IF check.raised # None
        THEN [check |-> check, api_calls |-> 0,
              raised |-> Some(AIError("Unexpected error")),
              printed |-> None, response |-> None]
        ELSE IF api.kind = "APIError"
        THEN [check |-> check, api_calls |-> 1,
              raised |-> Some(AIError("Claude API error")),
              printed |-> None, response |-> None]
        ELSE IF api.kind = "Exception"
        THEN [check |-> check, api_calls |-> 1,
              raised |-> Some(AIError("Unexpected error")),
              printed |-> None, response |-> None]
        ELSE [check |-> check, api_calls |-> 1, raised |-> None,
              printed |-> UnknownModelWarning(model),
              response |-> Some(AIResponse(model, api.usage[1],
                                           api.usage[2]))]

\* what generate() does on snapshot c at date: the exception it raises or
\* the AIResponse it returns, what it prints, and the number of Anthropic
\* calls made
Generated(c, date, model, api) ==
    LET check == CheckLimits(c, date)
    IN  IF check.raised # None
        THEN [check |-> check, api_calls |-> 0,
              raised |-> check.raised,
              printed |-> None, response |-> None]
        ELSE IF api.kind = "APIError"
        THEN [check |-> check, api_calls |-> 1,
              raised |-> Some(AIError("Claude API error")),
              printed |-> None, response |-> None]
        ELSE IF api.kind = "Exception"
        THEN [check |-> check, api_calls |-> 1,
              raised |-> Some(AIError("Unexpected error")),
              printed |-> None, response |-> None]
        ELSE [check |-> check, api_calls |-> 1, raised |-> None,
              printed |-> UnknownModelWarning(model),
              response |-> Some(AIResponse(model, api.usage[1],
                                           api.usage[2]))]

\* a generate() that records the cost of a successful generation itself
Generate_Recording(model, api) ==
    /\ \E g \in {Generated(costs, today, model, api)} :
           /\ result' = [op |-> "generate", check |-> g.check,
                         api_calls |-> g.api_calls, raised |-> g.raised,
                         printed |-> g.printed, response |-> g.response]
           /\ IF g.response # None /\ Len(recorded) < MaxRecords
              THEN \E c \in {AddCostTo(costs, today, g.response[1].cost_usd,
                                       "S15", None, None)} :
                       /\ costs' = c
                       /\ state_file' = Some(c)
                       /\ recorded' = Append(recorded,
                                             [date |-> today,
                                              cost |-> g.response[1].cost_usd,
                                              skill |-> "S15",
                                              workflow |-> None,
                                              details |-> None])
              ELSE UNCHANGED <<costs, state_file, recorded>>
    /\ UNCHANGED <<today, limitVars, clientVars, storeVars,
                   concurrentVars>>

\* AIClient.generate(prompt, model=model): api is what the Anthropic call
\* does if it is made
Generate(model, api) ==
    /\ \E g \in {Generated(costs, today, model, api)} :
           result' = [op |-> "generate", check |-> g.check,
                      api_calls |-> g.api_calls, raised |-> g.raised,
                      printed |-> g.printed, response |-> g.response]
    /\ UNCHANGED <<today, costs, state_file, limitVars, recorded,
                   clientVars, storeVars,
                   concurrentVars>>

\* the details dictionary that generate_with_cost_tracking gives add_cost
TrackingDetails(response) ==
    Some([model |-> response.model, input_tokens |-> response.input_tokens,
          output_tokens |-> response.output_tokens])

\* a generate_with_cost_tracking that records the cost whether or not
\* generate() succeeded
TrackedCost_Always(g) ==
    IF g.response # None THEN g.response
    ELSE Some(AIResponse("claude-3-5-haiku-20241022", 0, 0))

\* the response whose cost generate_with_cost_tracking records (None: the
\* exception of generate() propagates and add_cost is not reached)
TrackedCost(g) == IF g.raised # None THEN None ELSE g.response

\* a generate_with_cost_tracking that catches the CostLimitExceeded of
\* add_cost and returns the response
GenerateWithCostTracking_Swallow(model, api, label) ==
    /\ Len(recorded) < MaxRecords
    /\ \E g \in {Generated(costs, today, model, api)} :
       \E tracked \in {TrackedCost(g)} :
           IF tracked = None
           THEN /\ result' = [op |-> "generate_with_cost_tracking",
                              check |-> g.check, api_calls |-> g.api_calls,
                              raised |-> g.raised, printed |-> g.printed,
                              response |-> None, add_cost_calls |-> 0]
                /\ UNCHANGED <<costs, state_file, recorded>>
           ELSE \E response \in {tracked[1]} :
                \E c \in {AddCostTo(costs, today, response.cost_usd,
                                    label[1], label[2],
                                    TrackingDetails(response))} :
                \E after \in {CheckLimits(c, today)} :
                    /\ costs' = c
                    /\ state_file' = Some(c)
                    /\ recorded' = Append(recorded,
                                          [date |-> today,
                                           cost |-> response.cost_usd,
                                           skill |-> label[1],
                                           workflow |-> label[2],
                                           details |->
                                               TrackingDetails(response)])
                    /\ result' = [op |-> "generate_with_cost_tracking",
                                  check |-> g.check,
                                  api_calls |-> g.api_calls,
                                  raised |-> None,
                                  printed |-> g.printed,
                                  response |-> Some(response),
                                  add_cost_calls |-> 1]
    /\ UNCHANGED <<today, limitVars, clientVars, storeVars,
                   concurrentVars>>

\* AIClient.generate_with_cost_tracking(prompt, skill_name, workflow_name,
\* model=model): generate(), then add_cost() with its save_costs() and
\* check_limits()
GenerateWithCostTracking(model, api, label) ==
    /\ Len(recorded) < MaxRecords
    /\ \E g \in {Generated(costs, today, model, api)} :
       \E tracked \in {TrackedCost(g)} :
           IF tracked = None
           THEN /\ result' = [op |-> "generate_with_cost_tracking",
                              check |-> g.check, api_calls |-> g.api_calls,
                              raised |-> g.raised, printed |-> g.printed,
                              response |-> None, add_cost_calls |-> 0]
                /\ UNCHANGED <<costs, state_file, recorded>>
           ELSE \E response \in {tracked[1]} :
                \E c \in {AddCostTo(costs, today, response.cost_usd,
                                    label[1], label[2],
                                    TrackingDetails(response))} :
                \E after \in {CheckLimits(c, today)} :
                    /\ costs' = c
                    /\ state_file' = SavedFile(c, state_file)
                    /\ recorded' = Append(recorded,
                                          [date |-> today,
                                           cost |-> response.cost_usd,
                                           skill |-> label[1],
                                           workflow |-> label[2],
                                           details |->
                                               TrackingDetails(response)])
                    /\ result' = [op |-> "generate_with_cost_tracking",
                                  check |-> g.check,
                                  api_calls |-> g.api_calls,
                                  raised |-> after.raised,
                                  printed |-> g.printed,
                                  response |-> IF after.raised = None
                                               THEN Some(response)
                                               ELSE None,
                                  add_cost_calls |-> 1]
    /\ UNCHANGED <<today, limitVars, clientVars, storeVars,
                   concurrentVars>>

LedgerNext ==
    \/ AdvanceDate
    \/ \E cost_usd \in Costs, label \in Labels, midnight \in BOOLEAN :
          AddCost(cost_usd, label, midnight)
    \/ CheckLimitsCall
    \/ \E model \in Models, api \in ApiResults : Generate(model, api)

\* records on the ledger with a long history
HistoryNext ==
    \E cost_usd \in Costs, label \in Labels, midnight \in BOOLEAN :
       AddCost(cost_usd, label, midnight)

\* workflows that generate through generate_with_cost_tracking and generate
TrackingNext ==
    \/ AdvanceDate
    \/ \E model \in Models, api \in ApiResults : Generate(model, api)
    \/ \E model \in Models, api \in ApiResults, label \in TrackingLabels :
          GenerateWithCostTracking(model, api, label)

(***************************************************************************)
(* StateManager: inputs                                                    *)
(***************************************************************************)
\* workflow_name arguments
WorkflowNames == {"WF1", "wf1", "WF2"}

\* state arguments of save_workflow_state: dictionaries with str keys
WorkflowStates ==
    {[k \in {"total_processed"} |-> "10"],
     [k \in {"successful", "last_updated"} |->
         IF k = "successful" THEN "10" ELSE "'old'"],
     [k \in {"ids"} |-> "(1, 2)"],
     [k \in {"started"} |-> "datetime(2026, 1, 1)"]}

\* db_name and entry_id arguments
DbNames == {"viral_dna", "production_tracker"}

EntryIds == {"test-entry-123", "test-entry-456"}

(***************************************************************************)
(* StateManager: pure parts                                                *)
(***************************************************************************)
\* workflow_name.lower()
Lower(name) ==
    CASE name = "WF1" -> "wf1"
      [] name = "WF2" -> "wf2"
      [] OTHER        -> name

\* f"{workflow_name.lower()}_last_run.json", without the suffix
StateFileOf(workflow_name) == Lower(workflow_name)

\* datetime.now().isoformat()
IsoFormat(t) == ToString(t)

\* json.dumps(state, indent=2): the document, or TypeError
JsonDumps(state) ==
    IF \A k \in DOMAIN state : JsonSerializable(state[k])
    THEN [ok |-> TRUE, doc |-> [k \in DOMAIN state |-> JsonValue(state[k])]]
    ELSE [ok |-> FALSE, doc |-> <<>>]

\* load_workflow_state on the files fs
LoadedState(fs, workflow_name) ==
    IF StateFileOf(workflow_name) \notin DOMAIN fs THEN None
    ELSE Some(JsonLoads(fs[StateFileOf(workflow_name)]))

\* a StateManager that works on a dictionary of its own, empty at first,
\* instead of what the file holds
ReadProcessed_Own(pf) == <<>>

\* the processed dictionary read by mark_entry_processed and the readers
ReadProcessed(pf) == IF pf # None THEN pf[1] ELSE <<>>

\* entry_id in list
InList(entry_id, list) == \E i \in 1..Len(list) : list[i] = entry_id

\* processed.get(db_name, [])
GetList(processed, db_name) ==
    IF db_name \in DOMAIN processed THEN processed[db_name] ELSE <<>>

\* a mark_entry_processed that appends without the membership test
MarkedFile_AlwaysAppend(pf, db_name, entry_id) ==
    LET processed == ReadProcessed(pf)
        list == GetList(processed, db_name)
    IN  Some(Put(processed, db_name, Append(list, entry_id)))

\* the file written by mark_entry_processed(db_name, entry_id)
MarkedFile(pf, db_name, entry_id) ==
    LET processed == ReadProcessed(pf)
        list == GetList(processed, db_name)
    IN  Some(Put(processed, db_name,
                 IF InList(entry_id, list) THEN list
                 ELSE Append(list, entry_id)))

\* an is_entry_processed that looks into the lists of all databases
IsProcessed_AnyDb(pf, db_name, entry_id) ==
    IF pf = None THEN FALSE
    ELSE \E d \in DOMAIN pf[1] : InList(entry_id, pf[1][d])

\* is_entry_processed on the file pf
IsProcessed(pf, db_name, entry_id) ==
    IF pf = None THEN FALSE
    ELSE InList(entry_id, GetList(pf[1], db_name))

\* a get_processed_entries that lists the newest entry first
ProcessedEntries_NewestFirst(pf, db_name) ==
    IF pf = None THEN <<>>
    ELSE [i \in 1..Len(GetList(pf[1], db_name)) |->
             GetList(pf[1], db_name)[Len(GetList(pf[1], db_name)) + 1 - i]]

\* get_processed_entries on the file pf
ProcessedEntries(pf, db_name) ==
    IF pf = None THEN <<>> ELSE GetList(pf[1], db_name)

\* a clear_processed_entries that empties every database whatever db_name
ClearedFile_All(pf, db_name) ==
    IF pf = None THEN pf ELSE Some(<<>>)

\* the file after clear_processed_entries(db_name); db_name is None or
\* Some(name)
ClearedFile(pf, db_name) ==
    IF pf = None THEN pf
    ELSE IF db_name = None THEN Some(<<>>)
    ELSE IF db_name[1] \in DOMAIN pf[1]
    THEN Some(Put(pf[1], db_name[1], <<>>))
    ELSE pf

(***************************************************************************)
(* StateManager: state machine                                             *)
(***************************************************************************)
\* __init__ on an empty state directory
StoreInit ==
    /\ workflow_files = <<>>
    /\ processed_file = None
    /\ store_now = 0
    /\ store_result = [op |-> "init"]
    /\ saved = {}
    /\ marked = {}

\* save_workflow_state(workflow_name, state)
SaveWorkflowState(workflow_name, state) ==
    /\ store_now < MaxStoreOps
    /\ store_now' = store_now + 1
    /\ LET stamped == Put(state, "last_updated", IsoFormat(store_now))
           dumped == JsonDumps(stamped)
       IN  IF dumped.ok
           THEN /\ workflow_files' = Put(workflow_files,
                                         StateFileOf(workflow_name),
                                         dumped.doc)
                /\ saved' = saved \cup {workflow_name}
                /\ store_result' =
                       [op |-> "save_workflow_state",
                        workflow_name |-> workflow_name, state |-> state,
                        at |-> store_now, raised |-> None]
           ELSE /\ workflow_files' = workflow_files
                /\ saved' = saved
                /\ store_result' =
                       [op |-> "save_workflow_state",
                        workflow_name |-> workflow_name, state |-> state,
                        at |-> store_now,
                        raised |-> Some(TypeError("not JSON serializable"))]
    /\ UNCHANGED <<processed_file, marked, clientVars, ledgerVars,
                   concurrentVars>>

\* load_workflow_state(workflow_name)
LoadWorkflowState(workflow_name) ==
    /\ store_result' = [op |-> "load_workflow_state",
                        workflow_name |-> workflow_name,
                        ret |-> LoadedState(workflow_files, workflow_name),
                        raised |-> None]
    /\ UNCHANGED <<workflow_files, processed_file, store_now, saved, marked,
                   clientVars, ledgerVars,
                   concurrentVars>>

\* mark_entry_processed(db_name, entry_id)
MarkEntryProcessed(db_name, entry_id) ==
    /\ store_now < MaxStoreOps
    /\ store_now' = store_now + 1
    /\ processed_file' = MarkedFile(processed_file, db_name, entry_id)
    /\ marked' = marked \cup {<<db_name, entry_id>>}
    /\ store_result' = [op |-> "mark_entry_processed", db_name |-> db_name,
                        entry_id |-> entry_id, raised |-> None]
    /\ UNCHANGED <<workflow_files, saved, clientVars, ledgerVars,
                   concurrentVars>>

\* is_entry_processed(db_name, entry_id)
IsEntryProcessed(db_name, entry_id) ==
    /\ store_result' = [op |-> "is_entry_processed", db_name |-> db_name,
                        entry_id |-> entry_id,
                        ret |-> IsProcessed(processed_file, db_name,
                                            entry_id),
                        raised |-> None]
    /\ UNCHANGED <<workflow_files, processed_file, store_now, saved, marked,
                   clientVars, ledgerVars,
                   concurrentVars>>

\* get_processed_entries(db_name)
GetProcessedEntries(db_name) ==
    /\ store_result' = [op |-> "get_processed_entries", db_name |-> db_name,
                        ret |-> ProcessedEntries(processed_file, db_name),
                        raised |-> None]
    /\ UNCHANGED <<workflow_files, processed_file, store_now, saved, marked,
                   clientVars, ledgerVars,
                   concurrentVars>>

\* clear_processed_entries(db_name); db_name is None or Some(name)
ClearProcessedEntries(db_name) ==
    /\ store_now < MaxStoreOps
    /\ store_now' = store_now + 1
    /\ processed_file' = ClearedFile(processed_file, db_name)
    /\ store_result' = [op |-> "clear_processed_entries",
                        db_name |-> db_name, raised |-> None]
    /\ UNCHANGED <<workflow_files, saved, marked, clientVars, ledgerVars,
                   concurrentVars>>

StoreNext ==
    \/ \E workflow_name \in WorkflowNames, state \in WorkflowStates :
          SaveWorkflowState(workflow_name, state)
    \/ \E workflow_name \in WorkflowNames : LoadWorkflowState(workflow_name)
    \/ \E db_name \in DbNames, entry_id \in EntryIds :
          MarkEntryProcessed(db_name, entry_id)
    \/ \E db_name \in DbNames, entry_id \in EntryIds :
          IsEntryProcessed(db_name, entry_id)
    \/ \E db_name \in DbNames : GetProcessedEntries(db_name)
    \/ \E db_name \in {None} \cup {Some(d) : d \in DbNames} :
          ClearProcessedEntries(db_name)

\* the store while only the client or only the ledger runs
StoreUnused == StoreInit

\* the ledger while only the client runs
LedgerUnused == LedgerInit

\* the client while only the ledger runs
ClientUnused ==
    /\ ClientInit
    /\ json_error_is_request_exception
    /\ min_interval = MinIntervalOf(25)

\* the second instances and processes while none of them runs
ConcurrentUnused ==
    /\ clients = <<>>
    /\ request_starts = <<>>
    /\ peer_costs = <<>>
    /\ peer_recorded = <<>>
    /\ markers = <<>>
    /\ completed = {}

Init == ClientInit /\ LedgerUnused /\ StoreUnused /\ ConcurrentUnused

Next == ClientNext

Spec == Init /\ [][Next]_vars

\* calls of _request one after the other, each request answered at once and
\* no sleep overshooting; a call keeps running: an iteration of its loop that
\* can be taken is taken
RetryNext ==
    \/ \E mr \in 0..MaxRetriesArg : Request(mr)
    \/ \E r \in HttpResults : Attempt(r, 0, 0)

LoopFairness == WF_vars(\E r \in HttpResults : Attempt(r, 0, 0))

RetrySpec == Init /\ [][RetryNext]_vars /\ LoopFairness

LedgerSpecInit ==
    LedgerInit /\ ClientUnused /\ StoreUnused /\ ConcurrentUnused

LedgerSpecNext == LedgerNext

LedgerSpec == LedgerSpecInit /\ [][LedgerSpecNext]_vars

HistorySpecInit ==
    LongHistoryInit /\ ClientUnused /\ StoreUnused /\ ConcurrentUnused

HistorySpecNext == HistoryNext

HistorySpec == HistorySpecInit /\ [][HistorySpecNext]_vars

TrackingSpecInit ==
    LedgerInit /\ ClientUnused /\ StoreUnused /\ ConcurrentUnused

TrackingSpecNext == TrackingNext

TrackingSpec == TrackingSpecInit /\ [][TrackingSpecNext]_vars

StoreSpecInit ==
    StoreInit /\ ClientUnused /\ LedgerUnused /\ ConcurrentUnused

StoreSpecNext == StoreNext

StoreSpec == StoreSpecInit /\ [][StoreSpecNext]_vars

(***************************************************************************)
(* NotionClient: properties                                                *)
(***************************************************************************)
IsThrottle(e) == ~e.resp.raises /\ e.resp.status = 429

IsNotFound(e) == ~e.resp.raises /\ e.resp.status = 404

IsOtherError(e) ==
    ~e.resp.raises /\ e.resp.status >= 400 /\ e.resp.status \notin {429, 404}

IsNetworkFailure(e) == e.resp.raises

\* a 2xx response with a JSON body
IsSuccess(e) ==
    ~e.resp.raises /\ e.resp.status = 200 /\ JsonParse(e.resp.text).ok

Finished == pc = "idle" /\ trace # <<>>

\* C1: for one client, two consecutive HTTP requests (first attempts and
\* retries alike, across request() calls) start at least min_interval =
\* 1/rate apart, so N consecutive requests take at least (N-1) * min_interval
\* to start, and the first request of a fresh client is not delayed.
C1_RequestSpacing ==
    /\ Len(starts) = 2 => starts[2] - starts[1] >= min_interval
    /\ nreq >= 1 =>
           starts[Len(starts)] - first_start[1] >= (nreq - 1) * min_interval
    /\ first_delay # None => first_delay[1] = 0

\* the third request of the client, the first of a new request() call, held
\* back by the limiter
C1_Witness ==
    /\ nreq >= 3
    /\ Len(trace) = 1
    /\ last_delay > 0
    /\ first_delay = Some(0)

\* C5: a request() whose first max_retries - 1 attempts each receive a 429
\* and whose next attempt succeeds returns the parsed payload of that last
\* attempt after exactly max_retries HTTP requests.
C5_ThrottledThenSuccess ==
    (/\ Finished
     /\ \A k \in 1..Len(trace) :
            IF k < max_retries THEN IsThrottle(trace[k])
            ELSE IsSuccess(trace[k]))
    => /\ Len(trace) = max_retries
       /\ outcome = [kind |-> "return",
                     value |-> JsonParse(trace[max_retries].resp.text).val]

\* C6: a request() whose every attempt receives a 429 raises
\* NotionRateLimitError after exactly max_retries HTTP requests, carrying the
\* retry-after of the last response, without sleeping after the last attempt.
C6_AlwaysThrottled ==
    (Finished /\ \A k \in 1..Len(trace) : IsThrottle(trace[k]))
    => /\ Len(trace) = max_retries
       /\ outcome.kind = "NotionRateLimitError"
       /\ outcome.retry_after
              = RetryAfter(trace[max_retries].resp, max_retries - 1).val
       /\ trace[max_retries].sleep = None

\* C7: a 4xx/5xx response other than 429 and 404 ends request() at once with
\* a NotionAPIError carrying the status code (and the parsed body when it is
\* parseable), no retry and no backoff sleep, whether or not the body is
\* parseable.
C7_OtherErrorNoRetry ==
    \A k \in 1..Len(trace) :
        IsOtherError(trace[k])
        => /\ pc = "idle"
           /\ k = Len(trace)
           /\ trace[k].sleep = None
           /\ outcome.kind = "NotionAPIError"
           /\ outcome.status_code = Some(trace[k].resp.status)
           /\ JsonParse(trace[k].resp.text).ok
              => outcome.response_data
                     = Some(JsonParse(trace[k].resp.text).val)

\* C8: a 404 response ends request() at once with PageNotFoundError: no
\* further HTTP request and no backoff sleep, however many attempts remain.
C8_NotFoundImmediate ==
    \A k \in 1..Len(trace) :
        IsNotFound(trace[k])
        => /\ pc = "idle"
           /\ k = Len(trace)
           /\ trace[k].sleep = None
           /\ outcome.kind = "PageNotFoundError"
           /\ outcome.status_code = Some(404)

\* a 404 on the first of three allowed attempts
C8_Witness ==
    /\ Finished
    /\ max_retries = 3
    /\ IsNotFound(trace[1])
    /\ outcome.kind = "PageNotFoundError"

\* C9: after a network-level failure on attempt k (from 0) that is not the
\* last, the client sleeps 2^k seconds and tries again; when the last of
\* max_retries attempts fails this way it raises NotionAPIError wrapping the
\* cause without sleeping; when network failures are followed by a success,
\* the payload of that attempt is returned.
C9_NetworkFailureBackoff ==
    /\ \A k \in 1..Len(trace) :
           IsNetworkFailure(trace[k])
           => IF k < max_retries
              THEN /\ trace[k].sleep = Some(Pow2(k - 1))
                   /\ Len(trace) > k \/ pc = "loop"
                   /\ Len(trace) = k + 1
                      => waited >= Pow2(k - 1) * TicksPerSec
              ELSE /\ trace[k].sleep = None
                   /\ pc = "idle"
                   /\ Len(trace) = max_retries
                   /\ outcome.kind = "NotionAPIError"
                   /\ outcome.cause = Some("RequestException")
    /\ (/\ Finished
        /\ IsSuccess(trace[Len(trace)])
        /\ \A k \in 1..(Len(trace) - 1) : IsNetworkFailure(trace[k]))
       => outcome = [kind |-> "return",
                     value |-> JsonParse(trace[Len(trace)].resp.text).val]

\* three network failures exhaust max_retries = 3
C9_Witness ==
    /\ Finished
    /\ max_retries = 3
    /\ Len(trace) = 3
    /\ \A k \in 1..3 : IsNetworkFailure(trace[k])
    /\ outcome.kind = "NotionAPIError"

\* the seconds C10 expects request() to wait after the 429 of attempt k
\* (from 0): the hint when the response has one, 2^k otherwise
ExpectedThrottleWait(r, k) ==
    IF r.retry_after = "absent" THEN Some(Pow2(k))
    ELSE IF ParseInt(r.retry_after).ok /\ ParseInt(r.retry_after).val >= 0
    THEN Some(ParseInt(r.retry_after).val)
    ELSE Some(-1)

\* C10: after a 429 on a non-final attempt k (from 0), request() waits the
\* retry-after hint of that response when there is one, and 2^k seconds when
\* there is none, before it starts the next attempt.
C10_ThrottleWait ==
    \A k \in 1..Len(trace) :
        (IsThrottle(trace[k]) /\ k < max_retries)
        => /\ trace[k].sleep = ExpectedThrottleWait(trace[k].resp, k - 1)
           /\ Len(trace) > k \/ pc = "loop"
           /\ Len(trace) = k + 1
              => waited >= trace[k].sleep[1] * TicksPerSec

(***************************************************************************)
(* CostTracker and AIClient: properties                                    *)
(***************************************************************************)
RECURSIVE SumCosts(_, _, _)
\* the exact sum of the costs in recorded[1..n] whose date satisfies the
\* month m and, unless day is 0, the day
SumCosts(n, m, day) ==
    IF n = 0 THEN 0
    ELSE SumCosts(n - 1, m, day)
         + (IF /\ recorded[n].date[1] = m
               /\ day = 0 \/ recorded[n].date[2] = day
            THEN recorded[n].cost ELSE 0)

DateSet == {Dates[i] : i \in 1..Len(Dates)}

RECURSIVE SumOver(_, _)
\* the exact sum of f over the set S
SumOver(f, S) ==
    IF S = {} THEN 0
    ELSE LET x == CHOOSE y \in S : TRUE
         IN  Get(f, x) + SumOver(f, S \ {x})

BudgetExhausted ==
    \/ GetTodayCost >= daily_hard_limit
    \/ GetMonthCost >= monthly_hard_limit

\* C2: whenever the day total >= the daily hard limit or the month total >=
\* the monthly hard limit when generate() is called, generate() raises
\* CostLimitExceeded, makes no external generation call, and leaves the
\* ledger (snapshot and file) unchanged.
C2_BudgetGate ==
    [][(/\ BudgetExhausted
        /\ result'.op = "generate"
        /\ \E model \in Models, api \in ApiResults : Generate(model, api))
       => /\ result'.raised # None
          /\ result'.raised[1].kind = "CostLimitExceeded"
          /\ result'.api_calls = 0
          /\ result'.response = None
          /\ costs' = costs
          /\ state_file' = state_file]_vars

\* a generate() rejected by the monthly limit alone
C2_Witness ==
    /\ result.op = "generate"
    /\ result.raised # None
    /\ result.raised[1].kind = "CostLimitExceeded"
    /\ result.api_calls = 0
    /\ GetTodayCost < daily_hard_limit
    /\ GetMonthCost >= monthly_hard_limit

\* C3: in every reachable ledger state check_limits() raises
\* CostLimitExceeded exactly when the day total >= the daily hard limit or
\* the month total >= the monthly hard limit, whatever the soft limits say,
\* and the exception carries the day and month totals; once the costs
\* recorded today sum exactly to the daily hard limit, it raises with
\* daily_cost equal to that limit.
C3_EvaluateLimits ==
    LET check == CheckLimits(costs, today)
    IN  /\ check.raised # None <=> BudgetExhausted
        /\ check.raised # None
           => /\ check.raised[1].kind = "CostLimitExceeded"
              /\ check.raised[1].daily_cost = GetTodayCost
              /\ check.raised[1].monthly_cost = GetMonthCost
        /\ SumCosts(Len(recorded), today[1], today[2]) = daily_hard_limit
           => /\ check.raised # None
              /\ check.raised[1].daily_cost = daily_hard_limit

\* C4: after any sequence of add_cost calls with cost >= 0 on an empty
\* ledger, with the date advancing in between, the total stored for a day is
\* the sum of the costs recorded on that day, the total stored for a month is
\* the sum of the totals of its days, and get_today_cost / get_month_cost
\* return these for the current date.
C4_TotalsAreSums ==
    /\ \A d \in DateSet :
           Get(costs.daily, d) = SumCosts(Len(recorded), d[1], d[2])
    /\ \A d \in DateSet :
           Get(costs.monthly, d[1])
               = SumOver(costs.daily, {e \in DateSet : e[1] = d[1]})
    /\ GetTodayCost = SumCosts(Len(recorded), today[1], today[2])
    /\ GetMonthCost = SumCosts(Len(recorded), today[1], 0)

(***************************************************************************)
(* StateManager: properties                                                *)
(***************************************************************************)
\* C11: mark_entry_processed is idempotent: in the store left by any
\* mark_entry_processed(db_name, entry_id), the same call made a second time
\* changes nothing: the list of that database, and with it the membership of
\* every (db_name, entry_id) pair, is what the first call left.
C11_MarkIdempotent ==
    [][\A db_name \in DbNames, entry_id \in EntryIds :
          MarkEntryProcessed(db_name, entry_id)
          => LET twice == MarkedFile(processed_file', db_name, entry_id)
             IN  /\ twice = processed_file'
                 /\ \A d \in DbNames :
                        /\ ProcessedEntries(twice, d)
                               = ProcessedEntries(processed_file', d)
                        /\ \A e \in EntryIds :
                               IsProcessed(twice, d, e)
                                   = IsProcessed(processed_file', d, e)]_vars

\* the same entry marked a second time, with another one already in the list
C11_Witness ==
    /\ store_result.op = "mark_entry_processed"
    /\ store_now = 3
    /\ Cardinality(marked) = 2
    /\ \E d \in DbNames : Len(ProcessedEntries(processed_file, d)) = 2

(***************************************************************************)
(* AIClient.generate_with_cost_tracking: properties                        *)
(***************************************************************************)
\* C12: in generate_with_cost_tracking the ledger is updated only after a
\* successful generation: when the check_limits() of generate() raises or
\* the Anthropic call fails, the call raises, add_cost is not called, and
\* the day, month, per-skill and per-workflow totals, the history and the
\* file are unchanged.
C12_RecordOnlyAfterSuccess ==
    [][\A model \in Models, api \in ApiResults, label \in TrackingLabels :
          (/\ result'.op = "generate_with_cost_tracking"
           /\ \/ CheckLimits(costs, today).raised # None
              \/ api.kind # "response"
           /\ GenerateWithCostTracking(model, api, label))
          => /\ result'.raised # None
             /\ result'.response = None
             /\ result'.add_cost_calls = 0
             /\ costs' = costs
             /\ state_file' = state_file
             /\ recorded' = recorded]_vars

\* a failed Anthropic call on a ledger that already holds costs
C12_Witness ==
    /\ result.op = "generate_with_cost_tracking"
    /\ result.api_calls = 1
    /\ result.raised # None
    /\ result.raised[1].kind = "AIError"
    /\ Len(costs.history) = 2
    /\ state_file = Some(costs)

(***************************************************************************)
(* CostTracker.add_cost: effect and frame                                  *)
(***************************************************************************)
\* d2 is d with value added (by the float addition of the code) to the entry
\* of key, every other entry as it was, and no other key new
AddedAt(d, d2, key, value) ==
    /\ DOMAIN d2 = DOMAIN d \cup {key}
    /\ d2[key] = FAdd(Get(d, key), value)
    /\ \A k \in DOMAIN d : k # key => d2[k] = d[k]

\* C13: each add_cost(cost_usd, skill_name, workflow_name, details) adds
\* cost_usd to exactly the total of the current day, the total of the current
\* month, the total of skill_name and, when workflow_name is given, the total
\* of workflow_name, and appends exactly one history entry with that cost,
\* skill, workflow and details; the totals of every other day, month, skill
\* and workflow are unchanged, and a call without workflow_name changes no
\* workflow total.
\* (a step that lengthens recorded is the add_cost whose cost and skill are
\* in the new entry)
C13_RecordEffect ==
    [][Len(recorded') = Len(recorded) + 1
       => \A cost_usd \in {recorded'[Len(recorded')].cost},
             label \in {l \in Labels :
                           l[1] = recorded'[Len(recorded')].skill},
             midnight \in BOOLEAN :
             AddCost(cost_usd, label, midnight)
             => /\ AddedAt(costs.daily, costs'.daily, today, cost_usd)
                /\ AddedAt(costs.monthly, costs'.monthly, MonthOf(today),
                           cost_usd)
                /\ AddedAt(costs.per_skill, costs'.per_skill, label[1],
                           cost_usd)
                /\ IF label[2] # None
                   THEN AddedAt(costs.per_workflow, costs'.per_workflow,
                                label[2][1], cost_usd)
                   ELSE costs'.per_workflow = costs.per_workflow
                /\ Len(costs'.history) = Len(costs.history) + 1
                /\ SubSeq(costs'.history, 1, Len(costs.history))
                       = costs.history
                /\ LET e == costs'.history[Len(costs'.history)]
                   IN  /\ e.cost_usd = cost_usd
                       /\ e.skill = label[1]
                       /\ e.workflow = label[2]
                       /\ e.details = label[3]]_vars

\* a record without a workflow on a ledger that holds another day, another
\* skill and a workflow total
C13_Witness ==
    /\ result.op = "add_cost"
    /\ Len(recorded) = 3
    /\ costs.history[3].workflow = None
    /\ costs.history[1].workflow # None
    /\ recorded[1].date # recorded[3].date
    /\ Cardinality(DOMAIN costs.per_skill) = 2
    /\ Cardinality(DOMAIN costs.per_workflow) = 1

(***************************************************************************)
(* CostTracker.add_cost: history                                           *)
(***************************************************************************)
\* the history entry that add_cost appends for the call r
EventOf(r) ==
    [timestamp |-> r.date, cost_usd |-> r.cost, skill |-> r.skill,
     workflow |-> r.workflow, details |-> r.details]

\* every entry ever appended to the long history, oldest first
AllEvents == LongHistory \o [i \in 1..Len(recorded) |-> EventOf(recorded[i])]

\* C14: after every add_cost the history holds at most HistoryLimit = 1000
\* entries; when more have been appended the oldest are dropped first: the
\* history is exactly the HistoryLimit most recently appended entries, in
\* the order in which they were appended, and so is the history in the file.
C14_HistoryBounded ==
    LET h == costs.history
        dropped == Len(AllEvents) - Len(h)
    IN  /\ Len(h) <= HistoryLimit
        /\ Len(h) = IF Len(AllEvents) < HistoryLimit THEN Len(AllEvents)
                    ELSE HistoryLimit
        /\ \A i \in 1..Len(h) : h[i] = AllEvents[dropped + i]
        /\ state_file # None /\ state_file[1].history = h

\* three records on a history of HistoryLimit - 1 entries: the two oldest
\* entries are gone
C14_Witness ==
    /\ result.op = "add_cost"
    /\ Len(recorded) = 3
    /\ Len(costs.history) = HistoryLimit
    /\ costs.history[1] = LongHistory[3]
    /\ costs.history[HistoryLimit] = EventOf(recorded[3])

(***************************************************************************)
(* CostTracker.add_cost: order of the totals                               *)
(***************************************************************************)
\* no total of d is above its value in d2, and no key of d is missing in d2
NonDecreasing(d, d2) ==
    /\ DOMAIN d \subseteq DOMAIN d2
    /\ \A k \in DOMAIN d : d[k] <= d2[k]

\* C15: in every state reached through add_cost calls (cost >= 0) the total
\* of each day is <= the total of the month containing it, and no day,
\* month, skill or workflow total ever decreases.
C15_DayWithinMonth ==
    /\ [](\A d \in DOMAIN costs.daily :
             costs.daily[d] <= Get(costs.monthly, MonthOf(d)))
    /\ [][/\ NonDecreasing(costs.daily, costs'.daily)
          /\ NonDecreasing(costs.monthly, costs'.monthly)
          /\ NonDecreasing(costs.per_skill, costs'.per_skill)
          /\ NonDecreasing(costs.per_workflow, costs'.per_workflow)]_vars

\* records on two days of one month: the month total is above the total of
\* the current day
C15_Witness ==
    /\ result.op = "add_cost"
    /\ Len(recorded) = 3
    /\ today = Dates[2]
    /\ Dates[1] \in DOMAIN costs.daily
    /\ GetTodayCost > 0
    /\ GetTodayCost < GetMonthCost

(***************************************************************************)
(* StateManager: workflow snapshots                                        *)
(***************************************************************************)
\* C16: after save_workflow_state(w, s), load_workflow_state(w) returns
\* exactly the keys and values of s plus "last_updated" set at save time (in
\* place of a "last_updated" given by the caller); a later save of s2 under w
\* replaces it whole, so the same holds of s2 and no key of s alone
\* survives.
C16_SnapshotRoundTrip ==
    [][\A workflow_name \in WorkflowNames, state \in WorkflowStates :
          SaveWorkflowState(workflow_name, state)
          => /\ store_result'.raised = None
             /\ LoadedState(workflow_files', workflow_name)
                    = Some(Put(state, "last_updated",
                               IsoFormat(store_now)))]_vars

\* C17: snapshots of different workflow names are independent: for any two
\* different names A and B, names that differ only in letter case included,
\* save_workflow_state(A, s) leaves the result of load_workflow_state(B)
\* as it was.
C17_SnapshotsIndependent ==
    [][\A A \in WorkflowNames, state \in WorkflowStates :
          SaveWorkflowState(A, state)
          => \A B \in WorkflowNames \ {A} :
                 LoadedState(workflow_files', B)
                     = LoadedState(workflow_files, B)]_vars

\* C18: load_workflow_state(w) for a workflow name that was never saved
\* returns None and does not raise, in every reachable store.
C18_LoadMissing ==
    /\ \A w \in WorkflowNames \ saved : LoadedState(workflow_files, w) = None
    /\ (/\ store_result.op = "load_workflow_state"
        /\ store_result.workflow_name \notin saved)
       => /\ store_result.ret = None
          /\ store_result.raised = None

(***************************************************************************)
(* StateManager: processed entries                                         *)
(***************************************************************************)
\* db_name was never given to mark_entry_processed
NeverMarked(db_name) == \A e \in EntryIds : <<db_name, e>> \notin marked

\* C19: is_entry_processed and get_processed_entries are pure reads: they
\* change no file, and for a database that was never marked (no file yet, or
\* only other databases marked) is_entry_processed returns False and
\* get_processed_entries returns [] without raising.
C19_PureReads ==
    /\ [](/\ \A d \in DbNames :
               NeverMarked(d)
               => /\ ProcessedEntries(processed_file, d) = <<>>
                  /\ \A e \in EntryIds : ~IsProcessed(processed_file, d, e)
          /\ (/\ store_result.op = "is_entry_processed"
              /\ NeverMarked(store_result.db_name))
             => /\ store_result.ret = FALSE
                /\ store_result.raised = None
          /\ (/\ store_result.op = "get_processed_entries"
              /\ NeverMarked(store_result.db_name))
             => /\ store_result.ret = <<>>
                /\ store_result.raised = None)
    /\ [][(\/ \E d \in DbNames, e \in EntryIds : IsEntryProcessed(d, e)
           \/ \E d \in DbNames : GetProcessedEntries(d))
          => /\ processed_file' = processed_file
             /\ workflow_files' = workflow_files]_vars

\* is_entry_processed on a database never marked, for an entry marked in the
\* other database
C19_Witness ==
    /\ store_result.op = "is_entry_processed"
    /\ NeverMarked(store_result.db_name)
    /\ \E d \in DbNames : <<d, store_result.entry_id>> \in marked
    /\ processed_file # None
    /\ store_result.ret = FALSE

\* C20: clear_processed_entries(db_name) empties exactly the list of db_name
\* and leaves the list of every other database as it was;
\* clear_processed_entries() empties all of them; afterwards
\* is_entry_processed is False for every cleared pair; clearing when nothing
\* was ever marked changes nothing and does not raise.
C20_ClearProcessed ==
    [][\A db_name \in {None} \cup {Some(d) : d \in DbNames} :
          ClearProcessedEntries(db_name)
          => /\ store_result'.raised = None
             /\ \A d \in DbNames :
                    IF db_name = None \/ db_name = Some(d)
                    THEN /\ ProcessedEntries(processed_file', d) = <<>>
                         /\ \A e \in EntryIds :
                                ~IsProcessed(processed_file', d, e)
                    ELSE ProcessedEntries(processed_file', d)
                             = ProcessedEntries(processed_file, d)
             /\ marked = {} => processed_file' = processed_file]_vars

\* one database cleared while the other holds an entry
C20_Witness ==
    /\ store_result.op = "clear_processed_entries"
    /\ store_result.db_name # None
    /\ \E e \in EntryIds : <<store_result.db_name[1], e>> \in marked
    /\ ProcessedEntries(processed_file, store_result.db_name[1]) = <<>>
    /\ \E d \in DbNames : ProcessedEntries(processed_file, d) # <<>>

(***************************************************************************)
(* NotionClient: failure types and termination                             *)
(***************************************************************************)
\* the exception types of the Notion family (core/exceptions.py)
NotionFamily == {"NotionAPIError", "NotionRateLimitError", "PageNotFoundError"}

\* C21: whatever the sequence of results (429 with a present, absent or
\* malformed Retry-After; 404; other 4xx/5xx with a parseable or unparseable
\* body; network failure; success), a finished request() has returned the
\* parsed body or raised NotionRateLimitError, PageNotFoundError or
\* NotionAPIError, never another exception.
C21_TypedFailures ==
    (pc = "idle" /\ outcome.kind # "none")
    => \/ outcome.kind = "return"
       \/ outcome.kind \in NotionFamily

(***************************************************************************)
(* AIClient.generate: failures and cost                                    *)
(***************************************************************************)
\* C22: a failure of the Anthropic call or of the processing of its response
\* inside generate() reaches the caller as AIError, with one message for
\* anthropic.APIError and another for any other exception, while a
\* CostLimitExceeded of the check_limits() before the call reaches the caller
\* as CostLimitExceeded with the day and month totals, not as AIError.
C22_GenerationFailures ==
    [][(result'.op = "generate" /\ today' = today /\ costs' = costs)
       => IF BudgetExhausted
          THEN \/ /\ result'.raised # None
                  /\ result'.raised[1].kind = "CostLimitExceeded"
                  /\ result'.raised[1].daily_cost = GetTodayCost
                  /\ result'.raised[1].monthly_cost = GetMonthCost
               \/ \A model \in Models, api \in ApiResults :
                      ~Generate(model, api)
          ELSE \A api \in ApiResults :
                  \/ IF api.kind = "APIError"
                     THEN result'.raised = Some(AIError("Claude API error"))
                     ELSE IF api.kind = "Exception"
                     THEN /\ result'.raised
                               = Some(AIError("Unexpected error"))
                          /\ result'.raised
                               # Some(AIError("Claude API error"))
                     ELSE result'.raised = None
                  \/ \A model \in Models : ~Generate(model, api)]_vars

\* a generate() stopped by the check_limits() before the call
C22_Witness ==
    /\ result.op = "generate"
    /\ result.api_calls = 0
    /\ result.raised # None
    /\ result.raised[1].kind = "CostLimitExceeded"
    /\ result.raised[1].daily_cost >= daily_hard_limit
    /\ result.raised[1].monthly_cost < monthly_hard_limit

\* the cost of i input and o output tokens at the prices of price-table
\* entry m: (i / 1_000_000) * p_in + (o / 1_000_000) * p_out, in floats
PricedAt(m, i, o) ==
    FAdd(FMul(FDiv(i, 1000000), COSTS[m].input),
         FMul(FDiv(o, 1000000), COSTS[m].output))

\* C23: a generate() with a model that has no price entry, called within
\* budget and answered by the API, succeeds: the response is priced with the
\* Sonnet prices, a warning is printed, and the response reports the model
\* that was requested, not Sonnet.
C23_UnknownModel ==
    [][(result'.op = "generate" /\ today' = today /\ costs' = costs
        /\ ~BudgetExhausted)
       => \A model \in Models \ DOMAIN COSTS :
          \A api \in {a \in ApiResults : a.kind = "response"} :
              \/ /\ result'.raised = None
                 /\ result'.response # None
                 /\ result'.response[1].model = model
                 /\ result'.response[1].cost_usd
                        = PricedAt("claude-3-5-sonnet-20241022",
                                   api.usage[1], api.usage[2])
                 /\ result'.printed # None
              \/ ~Generate(model, api)]_vars

\* an unknown model priced at a non-zero Sonnet cost
C23_Witness ==
    /\ result.op = "generate"
    /\ result.response # None
    /\ result.response[1].model \notin DOMAIN COSTS
    /\ result.response[1].cost_usd > 0
    /\ result.printed # None

\* C24: the cost_usd of a response for a model of the price table is
\* (i / 1_000_000) * p_in + (o / 1_000_000) * p_out with that model's prices
\* and the response's token counts, it is never negative, and the amount
\* that generate_with_cost_tracking records in the ledger is that cost_usd.
C24_CostFormula ==
    [][/\ (result'.op = "generate" /\ today' = today
           /\ result'.response # None
           /\ result'.response[1].model \in DOMAIN COSTS)
          => \E r \in {result'.response[1]} :
                 /\ r.cost_usd
                        = PricedAt(r.model, r.input_tokens, r.output_tokens)
                 /\ r.cost_usd >= 0
       /\ (result'.op = "generate_with_cost_tracking"
           /\ Len(recorded') = Len(recorded) + 1)
          => \E e \in {recorded'[Len(recorded')]} :
             \E h \in {costs'.history[Len(costs'.history)]} :
                 /\ e.details # None
                 /\ e.details[1].model \in DOMAIN COSTS
                    => e.cost = PricedAt(e.details[1].model,
                                         e.details[1].input_tokens,
                                         e.details[1].output_tokens)
                 /\ e.cost >= 0
                 /\ h.cost_usd = e.cost
                 /\ result'.response # None
                    => /\ result'.response[1].cost_usd = e.cost
                       /\ TrackingDetails(result'.response[1]) = e.details
                 /\ Get(costs'.daily, today)
                        = FAdd(Get(costs.daily, today), e.cost)]_vars

\* a tracked generation that recorded a non-zero cost of a priced model
C24_Witness ==
    /\ result.op = "generate_with_cost_tracking"
    /\ result.response # None
    /\ result.response[1].model \in DOMAIN COSTS
    /\ result.response[1].cost_usd > 0
    /\ Len(recorded) > 0
    /\ recorded[Len(recorded)].cost = result.response[1].cost_usd

FSub(a, b) == IF a >= b THEN FRoundDiv(a - b, 1) ELSE 0 - FRoundDiv(b - a, 1)

\* the keys of a dict that add_cost filled, in insertion order: the order in
\* which the calls first named them
RECURSIVE FirstKeys(_)
FirstKeys(keys) ==
    IF keys = <<>> THEN <<>>
    ELSE LET front == FirstKeys(SubSeq(keys, 1, Len(keys) - 1))
             last == keys[Len(keys)]
         IN  IF \E i \in 1..Len(front) : front[i] = last THEN front
             ELSE Append(front, last)

\* self.costs["per_skill"].items() and self.costs["per_workflow"].items()
PerSkillItems ==
    LET keys == FirstKeys([i \in 1..Len(recorded) |-> recorded[i].skill])
    IN  [i \in 1..Len(keys) |-> <<keys[i], costs.per_skill[keys[i]]>>]

PerWorkflowItems ==
    LET given == SelectSeq(recorded, LAMBDA e : e.workflow # None)
        keys == FirstKeys([i \in 1..Len(given) |-> given[i].workflow[1]])
    IN  [i \in 1..Len(keys) |-> <<keys[i], costs.per_workflow[keys[i]]>>]

\* sorted(items, key=lambda x: x[1], reverse=True): a stable sort, items of
\* equal cost stay in the order they had
RECURSIVE SortedByCost(_)
SortedByCost(items) ==
    IF items = <<>> THEN <<>>
    ELSE LET front == SortedByCost(SubSeq(items, 1, Len(items) - 1))
             last == items[Len(items)]
             keep == Cardinality({i \in 1..Len(front) :
                                     front[i][2] >= last[2]})
         IN  SubSeq(front, 1, keep) \o <<last>>
                 \o SubSeq(front, keep + 1, Len(front))

\* items[:n]
FirstN(items, n) == SubSeq(items, 1, IF Len(items) < n THEN Len(items) ELSE n)

TopCount == 5

\* get_summary()
GetSummary ==
    [today |-> [cost |-> GetTodayCost, soft_limit |-> daily_soft_limit,
                hard_limit |-> daily_hard_limit,
                remaining |-> FSub(daily_hard_limit, GetTodayCost)],
     month |-> [cost |-> GetMonthCost, soft_limit |-> monthly_soft_limit,
                hard_limit |-> monthly_hard_limit,
                remaining |-> FSub(monthly_hard_limit, GetMonthCost)],
     top_skills |-> FirstN(SortedByCost(PerSkillItems), TopCount),
     top_workflows |-> FirstN(SortedByCost(PerWorkflowItems), TopCount)]

\* the place of a skill or workflow name in the order of names
NameRank(name) ==
    CASE name = "S05" -> 1
      [] name = "S15" -> 2
      [] name = "WF1" -> 3
      [] OTHER -> 4

\* top lists at most TopCount items of the dict d, those of highest cost, in
\* non-increasing cost order
IsTopByCost(top, d) ==
    /\ Len(top) <= TopCount
    /\ Len(top) = IF Cardinality(DOMAIN d) < TopCount
                  THEN Cardinality(DOMAIN d) ELSE TopCount
    /\ \A i \in 1..Len(top) : top[i][1] \in DOMAIN d /\ top[i][2] = d[top[i][1]]
    /\ \A i, j \in 1..Len(top) : i < j => top[i][1] # top[j][1]
    /\ \A i, j \in 1..Len(top) : i < j => top[i][2] >= top[j][2]
    /\ \A k \in DOMAIN d :
           (\A i \in 1..Len(top) : top[i][1] # k)
           => \A i \in 1..Len(top) : top[i][2] >= d[k]

\* items of equal cost are listed in the order of their names
TiesByName(top) ==
    \A i, j \in 1..Len(top) :
        (i < j /\ top[i][2] = top[j][2])
        => NameRank(top[i][1]) < NameRank(top[j][1])

\* C28: get_summary() returns, for the day and for the month, the current
\* total, the soft limit, the hard limit and a remaining amount equal to
\* hard limit - total, and at most 5 skills and at most 5 workflows, those of
\* highest cumulative cost in non-increasing cost order, items of equal cost
\* in the order of their names.
C28_Summary ==
    /\ GetSummary.today.cost = Get(costs.daily, today)
    /\ GetSummary.today.soft_limit = daily_soft_limit
    /\ GetSummary.today.hard_limit = daily_hard_limit
    /\ GetSummary.today.remaining
           = FSub(daily_hard_limit, Get(costs.daily, today))
    /\ GetSummary.month.cost = Get(costs.monthly, MonthOf(today))
    /\ GetSummary.month.soft_limit = monthly_soft_limit
    /\ GetSummary.month.hard_limit = monthly_hard_limit
    /\ GetSummary.month.remaining
           = FSub(monthly_hard_limit, Get(costs.monthly, MonthOf(today)))
    /\ IsTopByCost(GetSummary.top_skills, costs.per_skill)
    /\ IsTopByCost(GetSummary.top_workflows, costs.per_workflow)
    /\ TiesByName(GetSummary.top_skills)
    /\ TiesByName(GetSummary.top_workflows)

\* C29: _request always terminates: for every max_retries >= 0 and every
\* sequence of 429 responses and request failures it makes at most
\* max_retries HTTP requests in all, each of them using up one attempt of the
\* one budget, and a call that has started comes to its end, where it has
\* returned the payload or raised an exception.
C29_Terminates ==
    /\ [](Len(trace) <= max_retries)
    /\ [](pc = "loop" => Len(trace) = attempt /\ attempt < max_retries)
    /\ [][pc' = "idle" /\ (pc = "loop" \/ max_retries' # max_retries
                                       \/ trace' # trace)
          => outcome'.kind # "none"]_vars
    /\ (pc = "loop" ~> pc = "idle")

\* a call that used its whole budget on a 429 response, a request failure
\* and another 429 response, and then raised
C29_Witness ==
    /\ pc = "idle"
    /\ max_retries = 3
    /\ Len(trace) = 3
    /\ trace[1].resp.status = 429
    /\ trace[2].resp.raises
    /\ trace[3].resp.status = 429
    /\ outcome.kind = "NotionRateLimitError"

(***************************************************************************)
(* Two NotionClient instances of the same rate, each used by one thread.   *)
(* The threads share the clock; each instance has its own                  *)
(* last_request_time.                                                      *)
(***************************************************************************)
Instances == {1, 2}

\* the client variables that the two instances do not use
singleClientVars ==
    <<last_request_time, json_error_is_request_exception, pc, max_retries,
      attempt, outcome, trace, recv_time, waited, starts, first_start,
      first_delay, last_delay, nreq>>

\* __init__ of both instances
TwoClientsInit ==
    /\ ClientUnused
    /\ LedgerUnused
    /\ StoreUnused
    /\ clients = [i \in Instances |->
                      [pc |-> "idle", wake |-> 0, last_request_time |-> 0]]
    /\ request_starts = <<>>
    /\ peer_costs = <<>>
    /\ peer_recorded = <<>>
    /\ markers = <<>>
    /\ completed = {}

\* time passes
Tick ==
    /\ now < MaxTime
    /\ now' = now + 1
    /\ UNCHANGED <<min_interval, singleClientVars, ledgerVars, storeVars,
                   concurrentVars>>

\* instance i enters _rate_limit(): it reads the clock and its own
\* last_request_time, and sleeps if the interval has not elapsed
RateLimitEnter(i) ==
    /\ clients[i].pc = "idle"
    /\ clients' = [clients EXCEPT
                       ![i].pc = "sleep",
                       ![i].wake = now + RateLimitSleep(
                                             now, clients[i].last_request_time,
                                             min_interval)]
    /\ UNCHANGED <<clientVars, ledgerVars, storeVars, request_starts,
                   peer_costs, peer_recorded, markers, completed>>

\* a limiter state kept once for all instances
Stamped_Shared(cs, i, t) ==
    [j \in DOMAIN cs |->
        [cs[j] EXCEPT !.last_request_time = t,
                      !.pc = IF j = i THEN "idle" ELSE @]]

\* self.last_request_time = time.time() of instance i at time t
Stamped(cs, i, t) ==
    [cs EXCEPT ![i].last_request_time = t, ![i].pc = "idle"]

\* the sleep of instance i is over: it stamps its last_request_time and its
\* request starts
RateLimitLeave(i) ==
    /\ clients[i].pc = "sleep"
    /\ now >= clients[i].wake
    /\ clients' = Stamped(clients, i, now)
    /\ request_starts' = Append(request_starts, [client |-> i, time |-> now])
    /\ UNCHANGED <<clientVars, ledgerVars, storeVars, peer_costs,
                   peer_recorded, markers, completed>>

TwoClientsNext ==
    \/ Tick
    \/ \E i \in Instances : RateLimitEnter(i)
    \/ \E i \in Instances : RateLimitLeave(i)

TwoClientsSpec == TwoClientsInit /\ [][TwoClientsNext]_vars

\* C27: the limiter state is kept per NotionClient instance: a request start
\* of one instance changes the last_request_time of that instance only, and
\* the starts of each single instance are at least min_interval apart; those
\* of two instances need not be.
C27_PerInstanceLimiter ==
    /\ [](\A a, b \in 1..Len(request_starts) :
              (a < b /\ request_starts[a].client = request_starts[b].client)
              => request_starts[b].time - request_starts[a].time
                     >= min_interval)
    /\ [][Len(request_starts') = Len(request_starts) + 1
          => \E s \in {request_starts'[Len(request_starts')]} :
                 /\ clients'[s.client].last_request_time = s.time
                 /\ \A j \in Instances \ {s.client} :
                        clients'[j].last_request_time
                            = clients[j].last_request_time]_vars

\* four request starts within one interval of each other, two by each
\* instance, where the rate allows two
C27_Witness ==
    /\ Len(request_starts) = 4
    /\ request_starts[4].time - request_starts[1].time <= min_interval
    /\ \E a, b \in 1..4 :
           /\ request_starts[a].client # request_starts[b].client
           /\ request_starts[a].time - request_starts[b].time < min_interval
           /\ request_starts[b].time - request_starts[a].time < min_interval
    /\ \A i \in Instances :
           Cardinality({a \in 1..4 : request_starts[a].client = i}) = 2

(***************************************************************************)
(* Two CostTracker instances opened on the same file: costs is the         *)
(* snapshot of the first, peer_costs that of the second.                   *)
(***************************************************************************)
\* __init__ of both instances: load_costs() finds no file
TwoLedgersInit ==
    /\ LedgerInit
    /\ ClientUnused
    /\ StoreUnused
    /\ peer_costs = EmptyCosts
    /\ peer_recorded = <<>>
    /\ clients = <<>>
    /\ request_starts = <<>>
    /\ markers = <<>>
    /\ completed = {}

\* an add_cost of the second instance that loads the file again before it
\* adds
PeerAddCost_Reload(cost_usd, label) ==
    /\ Len(recorded) + Len(peer_recorded) < MaxRecords
    /\ \E c \in {AddCostTo(IF state_file = None THEN peer_costs
                           ELSE state_file[1],
                           today, cost_usd, label[1], label[2], None)} :
           /\ peer_costs' = c
           /\ state_file' = Some(c)
           /\ result' = [op |-> "add_cost", check |-> CheckLimits(c, today)]
    /\ peer_recorded' = Append(peer_recorded,
                               [date |-> today, cost |-> cost_usd,
                                skill |-> label[1], workflow |-> label[2],
                                details |-> None])
    /\ UNCHANGED <<today, costs, limitVars, recorded, clientVars, storeVars,
                   clients, request_starts, markers, completed>>

\* add_cost(cost_usd, skill_name, workflow_name) of the second instance
PeerAddCost(cost_usd, label) ==
    /\ Len(recorded) + Len(peer_recorded) < MaxRecords
    /\ \E c \in {AddCostTo(peer_costs, today, cost_usd, label[1], label[2],
                            None)} :
           /\ peer_costs' = c
           /\ state_file' = SavedFile(c, state_file)
           /\ result' = [op |-> "add_cost", check |-> CheckLimits(c, today)]
    /\ peer_recorded' = Append(peer_recorded,
                               [date |-> today, cost |-> cost_usd,
                                skill |-> label[1], workflow |-> label[2],
                                details |-> None])
    /\ UNCHANGED <<today, costs, limitVars, recorded, clientVars, storeVars,
                   clients, request_starts, markers, completed>>

TwoLedgersNext ==
    \/ AdvanceDate
    \/ \E cost_usd \in Costs, label \in Labels :
          AddCost(cost_usd, label, FALSE)
    \/ \E cost_usd \in Costs, label \in TrackingLabels :
          PeerAddCost(cost_usd, label)

TwoLedgersSpec == TwoLedgersInit /\ [][TwoLedgersNext]_vars

\* the sum of the costs that the calls of log gave for date
RECURSIVE CostsOn(_, _)
CostsOn(log, date) ==
    IF log = <<>> THEN 0
    ELSE CostsOn(SubSeq(log, 1, Len(log) - 1), date)
         + (IF log[Len(log)].date = date THEN log[Len(log)].cost ELSE 0)

\* C25: with two CostTracker instances on one file, each add_cost adds to
\* the snapshot its own instance holds in memory, whatever the file holds,
\* writes that snapshot as the whole file, leaves the snapshot of the other
\* instance as it was, and checks the limits against its own totals only.
C25_NoWriterProtocol ==
    [][/\ Len(peer_recorded') = Len(peer_recorded) + 1
          => \E e \in {peer_recorded'[Len(peer_recorded')]} :
                 /\ AddedAt(peer_costs.daily, peer_costs'.daily, e.date,
                            e.cost)
                 /\ state_file' = Some(peer_costs')
                 /\ costs' = costs
                 /\ result'.check.raised # None
                    <=> \/ Get(peer_costs'.daily, today') >= daily_hard_limit
                        \/ Get(peer_costs'.monthly, MonthOf(today'))
                               >= monthly_hard_limit
       /\ Len(recorded') = Len(recorded) + 1
          => \E e \in {recorded'[Len(recorded')]} :
                 /\ AddedAt(costs.daily, costs'.daily, e.date, e.cost)
                 /\ state_file' = Some(costs')
                 /\ peer_costs' = peer_costs
                 /\ result'.check.raised # None
                    <=> \/ Get(costs'.daily, today') >= daily_hard_limit
                        \/ Get(costs'.monthly, MonthOf(today'))
                               >= monthly_hard_limit]_vars

\* a lost update: both instances have recorded costs today, the file holds
\* a day total below the sum of these costs, and the last add_cost passed its
\* limit check although that sum has reached the daily hard limit
C25_Witness ==
    /\ state_file # None
    /\ \E i \in 1..Len(recorded) : recorded[i].date = today
    /\ \E i \in 1..Len(peer_recorded) : peer_recorded[i].date = today
    /\ Get(state_file[1].daily, today)
           < CostsOn(recorded, today) + CostsOn(peer_recorded, today)
    /\ CostsOn(recorded, today) + CostsOn(peer_recorded, today)
           >= daily_hard_limit
    /\ result.op = "add_cost"
    /\ result.check.raised = None

(***************************************************************************)
(* Two processes in mark_entry_processed on the same state directory.      *)
(* Each call reads the file, changes the dictionary it has read, and       *)
(* writes it; the steps of the two processes interleave.                   *)
(***************************************************************************)
Processes == {1, 2}

\* the database the two processes mark entries of
MarkerDbNames == {"viral_dna"}

TwoMarkersInit ==
    /\ StoreInit
    /\ ClientUnused
    /\ LedgerUnused
    /\ markers = [p \in Processes |-> [pc |-> "idle"]]
    /\ completed = {}
    /\ clients = <<>>
    /\ request_starts = <<>>
    /\ peer_costs = <<>>
    /\ peer_recorded = <<>>

\* process p calls mark_entry_processed(db_name, entry_id) and reads the
\* file
MarkRead(p, db_name, entry_id) ==
    /\ markers[p].pc = "idle"
    /\ markers' = [markers EXCEPT
                       ![p] = [pc |-> "read", db_name |-> db_name,
                               entry_id |-> entry_id,
                               processed |-> processed_file]]
    /\ UNCHANGED <<storeVars, clientVars, ledgerVars, clients,
                   request_starts, peer_costs, peer_recorded, completed>>

\* a write that adds the entry to what the file holds at the time of the
\* write
Written_Fresh(marker, pf) ==
    MarkedFile(pf, marker.db_name, marker.entry_id)

\* the file that a process in the state marker writes when the file holds
\* pf: the dictionary it has read, with its entry
Written(marker, pf) ==
    MarkedFile(marker.processed, marker.db_name, marker.entry_id)

\* process p changes the dictionary it has read and writes the file; its
\* call returns
MarkWrite(p) ==
    /\ markers[p].pc = "read"
    /\ processed_file' = Written(markers[p], processed_file)
    /\ markers' = [markers EXCEPT ![p] = [pc |-> "idle"]]
    /\ completed' = completed
                        \cup {<<markers[p].db_name, markers[p].entry_id>>}
    /\ UNCHANGED <<workflow_files, store_now, store_result, saved, marked,
                   clientVars, ledgerVars, clients, request_starts,
                   peer_costs, peer_recorded>>

TwoMarkersNext ==
    \/ \E p \in Processes, db_name \in MarkerDbNames, entry_id \in EntryIds :
          MarkRead(p, db_name, entry_id)
    \/ \E p \in Processes : MarkWrite(p)
    \/ \E db_name \in MarkerDbNames, entry_id \in EntryIds :
          IsEntryProcessed(db_name, entry_id)

TwoMarkersSpec == TwoMarkersInit /\ [][TwoMarkersNext]_vars

\* C26: mark_entry_processed takes no lock: the file a process writes holds
\* its own entry and otherwise exactly the entries the file held when that
\* process read it, whatever another process has written in between.
C26_NoLocking ==
    [][\A p \in Processes :
           (markers[p].pc = "read" /\ markers'[p].pc = "idle")
           => /\ IsProcessed(processed_file', markers[p].db_name,
                             markers[p].entry_id)
              /\ \A d \in MarkerDbNames, e \in EntryIds :
                     <<d, e>> # <<markers[p].db_name, markers[p].entry_id>>
                     => (IsProcessed(processed_file', d, e)
                         <=> IsProcessed(markers[p].processed, d, e))]_vars

\* both processes are back from mark_entry_processed, and is_entry_processed
\* returns False for an entry one of the calls marked
C26_Witness ==
    /\ \A p \in Processes : markers[p].pc = "idle"
    /\ store_result.op = "is_entry_processed"
    /\ <<store_result.db_name, store_result.entry_id>> \in completed
    /\ store_result.ret = FALSE
    /\ ~IsProcessed(processed_file, store_result.db_name,
                    store_result.entry_id)

(***************************************************************************)
(* AIClient and CostTracker: the budget over time                          *)
(***************************************************************************)
\* C31: a generate_with_cost_tracking whose pre-check passes and whose
\* generation succeeds makes the Anthropic call and saves its cost; if the
\* day or month total has then reached its hard limit, the call raises
\* CostLimitExceeded and returns no response, otherwise it returns the
\* response.
C31_RaisedAfterTheFact ==
    [][(/\ result'.op = "generate_with_cost_tracking"
        /\ today' = today
        /\ ~BudgetExhausted)
       => \A api \in {a \in ApiResults : a.kind = "response"} :
              \/ /\ result'.api_calls = 1
                 /\ result'.add_cost_calls = 1
                 /\ Len(recorded') = Len(recorded) + 1
                 /\ \E e \in {recorded'[Len(recorded')]} :
                        /\ e.cost = CostUsd(e.details[1].model, api.usage[1],
                                            api.usage[2])
                        /\ AddedAt(costs.daily, costs'.daily, today, e.cost)
                        /\ AddedAt(costs.monthly, costs'.monthly,
                                   MonthOf(today), e.cost)
                 /\ state_file' = Some(costs')
                 /\ IF \/ Get(costs'.daily, today) >= daily_hard_limit
                       \/ Get(costs'.monthly, MonthOf(today))
                              >= monthly_hard_limit
                    THEN /\ result'.raised # None
                         /\ result'.raised[1].kind = "CostLimitExceeded"
                         /\ result'.response = None
                    ELSE /\ result'.raised = None
                         /\ result'.response # None
                         /\ result'.response[1].cost_usd
                                = recorded'[Len(recorded')].cost
              \/ \A model \in Models, label \in TrackingLabels :
                     ~GenerateWithCostTracking(model, api, label)]_vars

\* a tracked generation that was admitted, called the API, saved its cost,
\* and raised on the daily limit without returning the response
C31_Witness ==
    /\ result.op = "generate_with_cost_tracking"
    /\ result.check.raised = None
    /\ result.api_calls = 1
    /\ result.add_cost_calls = 1
    /\ result.raised # None
    /\ result.raised[1].kind = "CostLimitExceeded"
    /\ result.response = None
    /\ state_file = Some(costs)
    /\ Len(recorded) > 0
    /\ recorded[Len(recorded)].cost > 0

\* C32: while the date stays the same, a day total that has reached the
\* daily hard limit stays there, and every generate() in such a state raises
\* CostLimitExceeded without an Anthropic call; when the date advances, the
\* total of the new day is zero, and so is the total of the new month when
\* the month advances; a generate() with the day total below the daily and
\* the month total below the monthly hard limit is admitted.
C32_StickyUntilRollover ==
    /\ [][(today' = today /\ GetTodayCost >= daily_hard_limit)
          => Get(costs'.daily, today') >= daily_hard_limit]_vars
    /\ [][(result'.op = "generate" /\ today' = today /\ costs' = costs)
          => /\ GetTodayCost >= daily_hard_limit
                => /\ result'.raised # None
                   /\ result'.raised[1].kind = "CostLimitExceeded"
                   /\ result'.api_calls = 0
             /\ (/\ GetTodayCost < daily_hard_limit
                 /\ GetMonthCost < monthly_hard_limit)
                => /\ result'.api_calls = 1
                   /\ result'.check.raised = None
                   /\ result'.raised # None
                      => result'.raised[1].kind = "AIError"]_vars
    /\ [][today' # today
          => /\ Get(costs'.daily, today') = 0
             /\ MonthOf(today') # MonthOf(today)
                => Get(costs'.monthly, MonthOf(today')) = 0
             /\ MonthOf(today') = MonthOf(today)
                => Get(costs'.monthly, MonthOf(today')) >= GetMonthCost]_vars

\* a generate() admitted on the second day, after the first day's total
\* reached the daily hard limit, the month total being below its limit
C32_Witness ==
    /\ result.op = "generate"
    /\ result.api_calls = 1
    /\ today = Dates[2]
    /\ Get(costs.daily, Dates[1]) >= daily_hard_limit
    /\ GetTodayCost = 0
    /\ GetMonthCost < monthly_hard_limit

(***************************************************************************)
(* NotionClient: a call without attempts                                   *)
(***************************************************************************)
\* C33: _request with max_retries = 0 makes no HTTP request, leaves
\* last_request_time and the clock as they are, and raises
\* NotionAPIError("Max retries exceeded") instead of returning a value.
C33_NoAttempts ==
    [][(pc = "idle" /\ max_retries' = 0 /\ Request(0))
       => /\ pc' = "idle"
          /\ trace' = <<>>
          /\ nreq' = nreq
          /\ starts' = starts
          /\ last_request_time' = last_request_time
          /\ now' = now
          /\ outcome'.kind = "NotionAPIError"
          /\ outcome'.message = "Max retries exceeded"]_vars

\* a call with max_retries = 0 on a client that has made requests before
C33_Witness ==
    /\ pc = "idle"
    /\ max_retries = 0
    /\ trace = <<>>
    /\ nreq >= 1
    /\ last_request_time > 0
    /\ outcome.kind = "NotionAPIError"
    /\ outcome.message = "Max retries exceeded"

(***************************************************************************)
(* One CostTracker whose file is opened again: add_cost with free-form     *)
(* details, and the construction of a new CostTracker on the file.         *)
(***************************************************************************)
\* (skill_name, workflow_name, details) arguments of add_cost, the details
\* holding an int, a tuple or a datetime
ReloadLabels ==
    {<<"S15", None, None>>}
    \cup {<<"S05", Some("WF1"), Some([note |-> v])>> :
              v \in {"10", "(1, 2)", "datetime(2026, 1, 1)"}}

\* a new CostTracker is constructed on the file and takes the place of the
\* old one
Reopen ==
    /\ costs' = LoadCosts(state_file)
    /\ result' = [op |-> "load_costs"]
    /\ UNCHANGED <<today, state_file, limitVars, recorded, clientVars,
                   storeVars, concurrentVars>>

ReloadInit ==
    LedgerInit /\ ClientUnused /\ StoreUnused /\ ConcurrentUnused

ReloadNext ==
    \/ AdvanceDate
    \/ \E cost_usd \in Costs, label \in ReloadLabels :
          AddCost(cost_usd, label, FALSE)
    \/ Reopen

ReloadSpec == ReloadInit /\ [][ReloadNext]_vars

\* C34: after every add_cost that returned or raised CostLimitExceeded, a
\* CostTracker constructed on the file holds the day, month, skill and
\* workflow totals and the history of the one that wrote it; a CostTracker
\* constructed without a file has no totals and an empty history.
C34_ReloadEquivalence ==
    /\ (result.op = "add_cost" /\ "check" \in DOMAIN result)
       => /\ state_file # None
          /\ LoadCosts(state_file).daily = costs.daily
          /\ LoadCosts(state_file).monthly = costs.monthly
          /\ LoadCosts(state_file).per_skill = costs.per_skill
          /\ LoadCosts(state_file).per_workflow = costs.per_workflow
          /\ LoadCosts(state_file).history = costs.history
    /\ (result.op = "load_costs" /\ state_file = None)
       => /\ costs = EmptyCosts
          /\ GetTodayCost = 0
          /\ GetMonthCost = 0
          /\ costs.history = <<>>

(***************************************************************************)
(* StateManager: the processed entries over a sequence of calls.  A        *)
(* StateManager holds the directory path only, and every call reads the    *)
(* file, so a call of the state machine is a call made through any         *)
(* instance on that directory.                                             *)
(***************************************************************************)
\* the (db_name, entry_id) pairs for which is_entry_processed returns True on
\* the file pf
Members(pf) ==
    {m \in DbNames \X EntryIds : IsProcessed(pf, m[1], m[2])}

\* the pairs of database db_name (of every database if db_name is None)
Covered(db_name) ==
    {m \in DbNames \X EntryIds : db_name = None \/ db_name = Some(m[1])}

\* C35: with calls that run one after the other, no update is lost: nothing
\* is a member at first, mark_entry_processed(db_name, entry_id) adds its
\* pair to the members and removes none, clear_processed_entries removes
\* the pairs it covers and no other, and no other call changes the members;
\* so is_entry_processed is True exactly for the pairs marked since the last
\* clear that covers them.
C35_NoLostUpdate ==
    /\ [](marked = {} => Members(processed_file) = {})
    /\ [][/\ \A db_name \in DbNames, entry_id \in EntryIds :
                 (/\ store_result'.op = "mark_entry_processed"
                  /\ MarkEntryProcessed(db_name, entry_id))
                 => Members(processed_file')
                        = Members(processed_file)
                              \cup {<<db_name, entry_id>>}
          /\ \A db_name \in {None} \cup {Some(d) : d \in DbNames} :
                 (/\ store_result'.op = "clear_processed_entries"
                  /\ ClearProcessedEntries(db_name))
                 => Members(processed_file')
                        = Members(processed_file) \ Covered(db_name)
          /\ store_result'.op
                 \notin {"mark_entry_processed", "clear_processed_entries"}
             => Members(processed_file') = Members(processed_file)
          /\ (store_result'.op = "is_entry_processed"
              /\ store_result' # store_result)
             => store_result'.ret
                    = (<<store_result'.db_name, store_result'.entry_id>>
                           \in Members(processed_file))]_vars

\* the third call is an is_entry_processed that returns True while one of
\* the two marked entries is in the file
C35_Witness ==
    /\ store_result.op = "is_entry_processed"
    /\ store_result.ret = TRUE
    /\ store_now = 3
    /\ Cardinality(marked) = 2
    /\ Cardinality(Members(processed_file)) = 1

\* the list l has no entry twice
NoDuplicates(l) == \A i, j \in 1..Len(l) : i # j => l[i] # l[j]

\* the list l2 starts with the list l
IsPrefix(l, l2) == Len(l) <= Len(l2) /\ SubSeq(l2, 1, Len(l)) = l

\* C36: after any sequence of mark_entry_processed and
\* clear_processed_entries calls, get_processed_entries(db_name) holds no
\* entry twice and holds an entry exactly when is_entry_processed is True
\* for it; a call that is not a clear of db_name leaves the entries listed
\* in place and lists a newly marked entry after them, so the list is in the
\* order of first insertion since the last clear.
C36_ListedOnceInOrder ==
    /\ [](\A d \in DbNames :
              /\ NoDuplicates(ProcessedEntries(processed_file, d))
              /\ \A e \in EntryIds :
                     InList(e, ProcessedEntries(processed_file, d))
                         <=> IsProcessed(processed_file, d, e))
    /\ [][\A d \in DbNames :
              IF /\ store_result'.op = "clear_processed_entries"
                 /\ store_result'.db_name \in {None, Some(d)}
              THEN ProcessedEntries(processed_file', d) = <<>>
              ELSE /\ IsPrefix(ProcessedEntries(processed_file, d),
                               ProcessedEntries(processed_file', d))
                   /\ Len(ProcessedEntries(processed_file', d))
                          <= Len(ProcessedEntries(processed_file, d)) + 1
                   /\ Len(ProcessedEntries(processed_file', d))
                          > Len(ProcessedEntries(processed_file, d))
                      => /\ store_result'.op = "mark_entry_processed"
                         /\ store_result'.db_name = d
                         /\ ProcessedEntries(processed_file', d)
                                = Append(ProcessedEntries(processed_file, d),
                                         store_result'.entry_id)]_vars

\* two entries listed in the order they were marked, the first of them
\* marked once more after the second
C36_Witness ==
    /\ store_result.op = "mark_entry_processed"
    /\ store_now = 3
    /\ ProcessedEntries(processed_file, store_result.db_name)
           = <<store_result.entry_id,
               CHOOSE e \in EntryIds : e # store_result.entry_id>>

(***************************************************************************)
(* CostTracker.add_cost: the totals next to a truncated history            *)
(***************************************************************************)
\* the entries of AllEvents with a cost other than 0.0
Priced == {i \in DOMAIN AllEvents : AllEvents[i].cost_usd # 0}

RECURSIVE ExactSum(_)
\* the exact sum of the costs of the entries S of AllEvents
ExactSum(S) ==
    IF S = {} THEN 0
    ELSE LET i == CHOOSE j \in S : TRUE
         IN  AllEvents[i].cost_usd + ExactSum(S \ {i})

\* C37: once more than HistoryLimit = 1000 entries have been appended, so
\* that the history has lost its oldest entries, the day totals, the month
\* totals, the skill totals and the workflow totals are the sums of the costs
\* of all entries ever appended, the dropped ones included.
C37_TruncationKeepsTotals ==
    Len(AllEvents) > HistoryLimit
        => /\ \A d \in DateSet :
                  Get(costs.daily, d)
                      = ExactSum({i \in Priced : AllEvents[i].timestamp = d})
           /\ \A d \in DateSet :
                  Get(costs.monthly, MonthOf(d))
                      = ExactSum({i \in Priced :
                                     MonthOf(AllEvents[i].timestamp)
                                         = MonthOf(d)})
           /\ \A s \in {"S05", "S15"} :
                  Get(costs.per_skill, s)
                      = ExactSum({i \in Priced : AllEvents[i].skill = s})
           /\ Get(costs.per_workflow, "WF1")
                  = ExactSum({i \in Priced :
                                 AllEvents[i].workflow = Some("WF1")})

(***************************************************************************)
(* AIClient: which calls reach the ledger                                  *)
(***************************************************************************)
\* the outcome r of a generation says that the Anthropic call was made and
\* gave a response: the call was reached and generate() did not raise AIError
CallSucceeded(r) ==
    /\ r.api_calls = 1
    /\ r.raised = None \/ r.raised[1].kind # "AIError"

\* C38: a generate() leaves the ledger and its file as they are, whether it
\* returns or raises; a generate_with_cost_tracking whose Anthropic call is
\* made and succeeds adds exactly one history entry, the one of its
\* response, and writes it to the file, and any other
\* generate_with_cost_tracking adds none; so the history and the file hold
\* one entry for each successful Anthropic call made through
\* generate_with_cost_tracking.
C38_OneRecordPerSuccess ==
    /\ [](/\ Len(costs.history) = Len(recorded)
          /\ state_file # None => state_file[1].history = costs.history
          /\ state_file = None => costs.history = <<>>)
    /\ [][result'.op = "generate"
          => /\ costs' = costs
             /\ state_file' = state_file
             /\ recorded' = recorded]_vars
    /\ [][(result'.op = "generate_with_cost_tracking" /\ today' = today)
          => IF CallSucceeded(result')
             THEN /\ Len(costs'.history) = Len(costs.history) + 1
                  /\ SubSeq(costs'.history, 1, Len(costs.history))
                         = costs.history
                  /\ \E e \in {costs'.history[Len(costs'.history)]} :
                         /\ e.timestamp = today
                         /\ e.skill = "S05"
                         /\ e.details # None
                         /\ e.cost_usd
                                = CostUsd(e.details[1].model,
                                          e.details[1].input_tokens,
                                          e.details[1].output_tokens)
                  /\ Len(recorded') = Len(recorded) + 1
                  /\ state_file' = Some(costs')
                  /\ result'.add_cost_calls = 1
             ELSE /\ costs' = costs
                  /\ state_file' = state_file
                  /\ recorded' = recorded
                  /\ result'.response = None
                  /\ result'.add_cost_calls = 0]_vars

\* a generate() that returned its response on a ledger holding the two
\* entries of two tracked generations
C38_Witness ==
    /\ result.op = "generate"
    /\ result.api_calls = 1
    /\ result.response # None
    /\ Len(costs.history) = 2
    /\ Len(recorded) = 2
    /\ state_file = Some(costs)

(***************************************************************************)
(* CostTracker: the operations that only read                              *)
(***************************************************************************)
\* skill_name and workflow_name arguments of the queries: names with and
\* without a total
QueryNames == {"S05", "S15", "WF1", "WF9"}

\* get_today_cost()
GetTodayCostCall ==
    /\ result' = [op |-> "get_today_cost", ret |-> GetTodayCost]
    /\ UNCHANGED <<today, costs, state_file, limitVars, recorded,
                   clientVars, storeVars, concurrentVars>>

\* get_month_cost()
GetMonthCostCall ==
    /\ result' = [op |-> "get_month_cost", ret |-> GetMonthCost]
    /\ UNCHANGED <<today, costs, state_file, limitVars, recorded,
                   clientVars, storeVars, concurrentVars>>

\* get_skill_cost(skill_name)
GetSkillCostCall(skill_name) ==
    /\ result' = [op |-> "get_skill_cost", name |-> skill_name,
                  ret |-> Get(costs.per_skill, skill_name)]
    /\ UNCHANGED <<today, costs, state_file, limitVars, recorded,
                   clientVars, storeVars, concurrentVars>>

\* get_workflow_cost(workflow_name)
GetWorkflowCostCall(workflow_name) ==
    /\ result' = [op |-> "get_workflow_cost", name |-> workflow_name,
                  ret |-> Get(costs.per_workflow, workflow_name)]
    /\ UNCHANGED <<today, costs, state_file, limitVars, recorded,
                   clientVars, storeVars, concurrentVars>>

\* get_summary()
GetSummaryCall ==
    /\ result' = [op |-> "get_summary", summary |-> GetSummary]
    /\ UNCHANGED <<today, costs, state_file, limitVars, recorded,
                   clientVars, storeVars, concurrentVars>>

\* a ledger that is written and read
QueryNext ==
    \/ AdvanceDate
    \/ \E cost_usd \in Costs, label \in Labels :
          AddCost(cost_usd, label, FALSE)
    \/ CheckLimitsCall
    \/ GetTodayCostCall
    \/ GetMonthCostCall
    \/ \E skill_name \in QueryNames : GetSkillCostCall(skill_name)
    \/ \E workflow_name \in QueryNames : GetWorkflowCostCall(workflow_name)
    \/ GetSummaryCall

QuerySpecInit ==
    LedgerInit /\ ClientUnused /\ StoreUnused /\ ConcurrentUnused

QuerySpec == QuerySpecInit /\ [][QueryNext]_vars

\* the operations of the ledger that only read it
ReadOps ==
    {"check_limits", "get_today_cost", "get_month_cost", "get_skill_cost",
     "get_workflow_cost", "get_summary"}

\* C39: check_limits(), whether it returns or raises, get_today_cost(),
\* get_month_cost(), get_skill_cost(), get_workflow_cost() and get_summary()
\* leave the snapshot, the file and the four limits as they are; no step of
\* the ledger, add_cost included, changes any of the four limits set by
\* __init__.
C39_ReadsChangeNothing ==
    /\ [][result'.op \in ReadOps
          => /\ costs' = costs
             /\ state_file' = state_file
             /\ recorded' = recorded
             /\ limitVars' = limitVars]_vars
    /\ [][limitVars' = limitVars]_vars

\* a check_limits() that raised on a ledger with two records and a file
C39_Witness ==
    /\ result.op = "check_limits"
    /\ result.check.raised # None
    /\ Len(recorded) = 2
    /\ state_file = Some(costs)
    /\ today # Dates[1]

====
